---- MODULE Spec2Model ----
(***************************************************************************)
(* eCFR analytics: the refresh pipeline of cmd/server/main.go              *)
(* (refreshCurrent behind refreshMu, requested by the startup task, the    *)
(* daily timer and POST /api/refresh) over the snapshot store of           *)
(* internal/store, and the retrying HTTP client of internal/ecfr.          *)
(*                                                                         *)
(* Dates are the strings "YYYY-MM-DD" of the source; they are compared     *)
(* only lexically, so they are modelled by the integers 1..MaxDate in the  *)
(* same order.                                                             *)
(***************************************************************************)
EXTENDS Integers, Sequences, FiniteSets, TLC

\* ------------------------------------------------------------------ bounds
MaxTitle == 2
MaxDate == 1
MaxFeedLen == 2
MaxContent == 2
MaxRequests == 2

\* ------------------------------------------------------- program constants
DefaultConcurrency == 2
MinWorkers == 1
MaxWorkers == 8
JobAttempts == 3

\* --------------------------------------------------------------- universes
Req == {"startup", "daily", "post"}
Tasks == {"agencies", "titles"}
TitleNumbers == 1..MaxTitle
Dates == 1..MaxDate
Contents == 1..MaxContent
Keys == TitleNumbers \X Dates

\* ecfr.Title: number, as-of date, reserved flag (the name is not used by
\* the pipeline).
TitleRecs == [number : TitleNumbers, date : Dates, reserved : BOOLEAN]
\* What GET titles.json can decode to: any list, duplicates included.
TitleFeeds == UNION {[1..n -> TitleRecs] : n \in 0..MaxFeedLen}

ClampWorkersBelow(n) == IF n < MinWorkers THEN MinWorkers ELSE n

\* getenvInt("ECFR_DOWNLOAD_CONCURRENCY", 2) clamped to 1..8.
ClampWorkers(n) == IF n < MinWorkers THEN MinWorkers ELSE IF n > MaxWorkers THEN MaxWorkers ELSE n
Workers == ClampWorkers(DefaultConcurrency)
WorkerIds == 1..Workers

\* Error values, by what the code distinguishes in them.
\*   "timeout"  net.Error with Timeout() / "Client.Timeout exceeded"
\*   "status"   GET url: status=NNN (a terminal status, or 429/5xx after the
\*              client's attempts are used up)
\*   "unavailable" GET url: status=NNN of a 429/5xx answer, as the download
\*              worker gets it from GetFullTitleXMLStream
\*   "refused"  a connection failure that is not a timeout (refused, reset)
\*   "deadline" context.DeadlineExceeded, "canceled" context.Canceled
\*   "storage"  a disk or database failure, "unique" the UNIQUE(title_number,
\*              issue_date) constraint, "toolarge" the size limit
isRetryableDownloadErr(e) == e \in {"timeout", "deadline"}

VARIABLES
    refreshMu,    \* sync.Mutex of main: TRUE when locked
    req,          \* per requester: idle | waiting | running | done
    cyc,          \* per requester: the locals of its refreshCurrent call
    requests,     \* number of refreshes requested so far
    snapshots,    \* table snapshots: the (title, date) keys with a row
    files,        \* data/xml: key -> content of title-N_DATE.xml.gz, 0 if absent
    lastRefresh,  \* state key last_refresh: 0 if never written
    cl,           \* one call of the HTTP client (Client.do and its caller)
    st,           \* a snapshot store under Save calls (files, rows, the call)
    mt,           \* one metric computation (its inputs, position and rows)
    tb,           \* tables agencies and agency_metrics under puts and queries
    pf            \* one application of a pure function (its input and result)

refreshVars == <<refreshMu, req, cyc, requests, snapshots, files, lastRefresh>>
vars == <<refreshVars, cl, st, mt, tb, pf>>

\* What a refresh step leaves alone: the state of the other parts.
outside == <<cl, st, mt, tb, pf>>
\* The same for a step of the client.
outsideClient == <<refreshVars, st, mt, tb, pf>>

NoWorker == [pc |-> "none", job |-> 0, attempt |-> 0]

\* The locals of one refreshCurrent call, before it starts.
InitCyc ==
    [pc |-> "idle", id |-> 0, ctx |-> "none", ext |-> FALSE,
     task |-> [k \in Tasks |-> "idle"], errCh |-> <<>>,
     titles |-> <<>>,
     jobs |-> <<>>, sendIdx |-> 1, closed |-> FALSE,
     w |-> [i \in WorkerIds |-> NoWorker],
     downloaded |-> 0, failed |-> {}, computed |-> FALSE, wrote |-> FALSE,
     result |-> "none", err |-> "none"]

\* The server after main's setup, before any refresh: an empty store.
RefreshInit ==
    /\ refreshMu = FALSE
    /\ req = [r \in Req |-> "idle"]
    /\ cyc = [r \in Req |-> InitCyc]
    /\ requests = 0
    /\ snapshots = {}
    /\ files = [k \in Keys |-> 0]
    /\ lastRefresh = 0

\* No client call is followed step by step.
NoCall == [pc |-> "none"]
\* No store call and no metric computation is followed step by step.
NoStore == [pc |-> "none"]
NoMetrics == [pc |-> "none"]
\* No table operation and no function application is followed.
NoTable == [pc |-> "none"]
NoFunction == [pc |-> "none"]
\* The parts that a specification of one part leaves at rest.
Rest(parts) ==
    /\ "cl" \in parts => cl = NoCall
    /\ "st" \in parts => st = NoStore
    /\ "mt" \in parts => mt = NoMetrics
    /\ "tb" \in parts => tb = NoTable
    /\ "pf" \in parts => pf = NoFunction

Init == RefreshInit /\ Rest({"cl", "st", "mt", "tb", "pf"})

store == <<snapshots, files, lastRefresh>>

CtxDone(r) == cyc[r].ctx # "none"

\* ------------------------------------------------------------- requesters
\* The startup goroutine, one turn of the daily loop (its timer fired), or a
\* POST /api/refresh handler: each creates its context and calls deps.refresh.
Request(r) ==
    /\ req[r] = "idle"
    /\ requests < MaxRequests
    /\ req' = [req EXCEPT ![r] = "waiting"]
    /\ requests' = requests + 1
    /\ cyc' = [cyc EXCEPT ![r] = [InitCyc EXCEPT !.id = requests + 1]]
    /\ UNCHANGED <<outside, refreshMu, store>>

\* The caller's context ends: the 15 min timeout of the startup and daily
\* refresh (context.DeadlineExceeded), or the client of POST /api/refresh
\* going away (context.Canceled; its 10 min timeout acts as the daily one).
\* A context that ends while its caller waits for the lock is seen by
\* refreshCurrent as one that ends at its first step.
ExtErrs(r) == IF r = "post" THEN {"canceled"} ELSE {"deadline"}

ExtCancel(r) ==
    /\ req[r] = "running"
    /\ ~cyc[r].ext
    /\ cyc[r].pc # "ret"
    /\ \E e \in ExtErrs(r) :
         cyc' = [cyc EXCEPT ![r].ext = TRUE,
                            ![r].ctx = IF @ = "none" THEN e ELSE @]
    /\ UNCHANGED <<outside, refreshMu, req, requests, store>>

MutexFreeIgnored == TRUE

\* sync.Mutex: Lock returns only while no other caller holds the mutex.
MutexFree == ~refreshMu

\* refreshMu.Lock(); refreshCurrent starts: ctx, cancel := WithCancel(ctx),
\* errCh := make(chan error, 2), wg.Add(2), go ..., go ...
Lock(r) ==
    /\ req[r] = "waiting"
    /\ MutexFree
    /\ refreshMu' = TRUE
    /\ req' = [req EXCEPT ![r] = "running"]
    /\ cyc' = [cyc EXCEPT ![r].pc = "meta",
                          ![r].task = [k \in Tasks |-> "run"]]
    /\ UNCHANGED <<outside, requests, store>>

\* ---------------------------------------------------------- metadata phase
\* The failure branch of a metadata goroutine, first statement: errCh <- err
\* (buffered, never blocks).
TaskFail(r, k, e) ==
    cyc' = [cyc EXCEPT ![r].errCh = Append(@, e), ![r].task[k] = "cancel"]

\* The success branch: agencies = a / titles = t, wg.Done. The rows written to
\* tables agencies and titles are read only by the metric computation, and
\* agencies only for len() in the result map: neither is part of this state.
TaskOk(r, k, feed) ==
    cyc' = [cyc EXCEPT ![r].task[k] = "done",
                       ![r].titles = IF k = "titles" THEN feed ELSE @]

FeedsOf(k) == IF k = "titles" THEN TitleFeeds ELSE {<<>>}

\* One metadata goroutine up to its branch: cli.GetAgencies(ctx) then
\* st.UpsertAgencies(ctx, a), or cli.GetTitles(ctx) then st.UpsertTitles(ctx,
\* t). Both calls fail on a context that is done; the request is local to the
\* goroutine, so fetch and persist are one step.
TaskRun(r, k) ==
    /\ cyc[r].pc = "meta"
    /\ cyc[r].task[k] = "run"
    /\ IF CtxDone(r)
       THEN TaskFail(r, k, cyc[r].ctx)
       ELSE \/ \E feed \in FeedsOf(k) : TaskOk(r, k, feed)
            \/ \E e \in {"status", "storage"} : TaskFail(r, k, e)
    /\ UNCHANGED <<outside, refreshMu, req, requests, store>>

\* The failure branch, second statement: cancel(); return (wg.Done).
TaskCancel(r, k) ==
    /\ cyc[r].pc = "meta"
    /\ cyc[r].task[k] = "cancel"
    /\ cyc' = [cyc EXCEPT ![r].task[k] = "failed",
                          ![r].ctx = IF @ = "none" THEN "canceled" ELSE @]
    /\ UNCHANGED <<outside, refreshMu, req, requests, store>>

MetaTasksFinishedEither(r) == \E k \in Tasks : cyc[r].task[k] \in {"done", "failed"}

\* wg.Wait() of the metadata phase returns.
MetaTasksFinished(r) == \A k \in Tasks : cyc[r].task[k] \in {"done", "failed"}

ErrPendingDropped(r) == FALSE

\* select { case err := <-errCh: return nil, err; default: }
ErrPending(r) == Len(cyc[r].errCh) > 0

ReturnErr(r, e) ==
    cyc' = [cyc EXCEPT ![r].pc = "ret", ![r].result = "err", ![r].err = e]

\* ------------------------------------------------------- job construction
\* Store.SnapshotExists: a row of table snapshots for the key.
SnapshotExists(title, date) == <<title, date>> \in snapshots

NeedsDownload(t) == ~t.reserved /\ ~SnapshotExists(t.number, t.date)

RECURSIVE JobsFor(_)
JobsFor(titles) ==
    IF titles = <<>> THEN <<>>
    ELSE IF NeedsDownload(Head(titles))
         THEN <<[title |-> Head(titles).number, date |-> Head(titles).date]>>
                  \o JobsFor(Tail(titles))
         ELSE JobsFor(Tail(titles))

\* The loop queries the store for every title that is not reserved; a query
\* fails when the context is done or the database fails.
QueriesStore(titles) == \E i \in 1..Len(titles) : ~titles[i].reserved

\* From here on titles and agencies are read only for len() in the result
\* map: the model forgets them.
StartWorkers(r, jobs) ==
    IF Len(jobs) = 0
    THEN cyc' = [cyc EXCEPT ![r].pc = "compute", ![r].titles = <<>>]
    ELSE cyc' = [cyc EXCEPT ![r].pc = "send", ![r].jobs = jobs, ![r].titles = <<>>,
                            ![r].w = [i \in WorkerIds |-> [NoWorker EXCEPT !.pc = "recv"]]]

BuildJobs(r) ==
    IF QueriesStore(cyc[r].titles)
    THEN IF CtxDone(r)
         THEN ReturnErr(r, cyc[r].ctx)
         ELSE \/ StartWorkers(r, JobsFor(cyc[r].titles))
              \/ ReturnErr(r, "storage")
    ELSE StartWorkers(r, <<>>)

ReceivedLast(ch) == ch[Len(ch)]

\* err := <-errCh: a buffered channel delivers the value sent first.
Received(ch) == Head(ch)

\* The main goroutine from wg.Wait() of the metadata phase to the start of the
\* workers: no other goroutine of the call runs in between.
MetaJoin(r) ==
    /\ cyc[r].pc = "meta"
    /\ MetaTasksFinished(r)
    /\ IF ErrPending(r)
       THEN ReturnErr(r, Received(cyc[r].errCh))
       ELSE BuildJobs(r)
    /\ UNCHANGED <<outside, refreshMu, req, requests, store>>

\* ----------------------------------------------------------- download phase
JobKey(r, i) == <<cyc[r].jobs[i].title, cyc[r].jobs[i].date>>

\* sendLoop: jobCh is unbuffered, so a send is a rendezvous with a worker
\* blocked in "for j := range jobCh". The worker then tests ctx.Err().
TakesUnchecked(r, j) == [pc |-> "fetch", job |-> j, attempt |-> 0]

\* for j := range jobCh { if ctx.Err() != nil { return } ...: the worker
\* that received job j starts its first attempt unless the context is done.
Takes(r, j) ==
    IF CtxDone(r)
    THEN [NoWorker EXCEPT !.pc = "exit"]
    ELSE [pc |-> "fetch", job |-> j, attempt |-> 0]

Handoff(r, w) ==
    /\ cyc[r].pc = "send"
    /\ cyc[r].sendIdx <= Len(cyc[r].jobs)
    /\ cyc[r].w[w].pc = "recv"
    /\ cyc' = [cyc EXCEPT ![r].sendIdx = @ + 1,
                          ![r].w[w] = Takes(r, cyc[r].sendIdx)]
    /\ UNCHANGED <<outside, refreshMu, req, requests, store>>

\* The send loop ends (every job sent, or case <-ctx.Done(): break sendLoop)
\* and close(jobCh) runs.
CloseJobs(r) ==
    /\ cyc[r].pc = "send"
    /\ cyc[r].sendIdx > Len(cyc[r].jobs) \/ CtxDone(r)
    /\ cyc' = [cyc EXCEPT ![r].pc = "wait", ![r].closed = TRUE]
    /\ UNCHANGED <<outside, refreshMu, req, requests, store>>

\* range jobCh ends on the closed channel: the worker returns.
WorkerExit(r, w) ==
    /\ cyc[r].w[w].pc = "recv"
    /\ cyc[r].closed
    /\ cyc' = [cyc EXCEPT ![r].w[w] = [NoWorker EXCEPT !.pc = "exit"]]
    /\ UNCHANGED <<outside, refreshMu, req, requests, store>>

\* After a failed attempt: lastErr = err; break when the error is not
\* retryable or the attempts are used up, else wait before the next attempt.
GivesUp(wk, e) == ~isRetryableDownloadErr(e) \/ wk.attempt = JobAttempts - 1

SkipJobAborting(c, j) ==
    [c EXCEPT !.failed = @ \cup {j}, !.ctx = IF @ = "none" THEN "canceled" ELSE @]

\* if lastErr != nil { log.Printf("... continuing"); continue }: the job is
\* given up (recorded here as failed); nothing else of the call changes.
SkipJob(c, j) == [c EXCEPT !.failed = @ \cup {j}]

\* The locals of the call after worker w, in state wk, got error e.
AfterJobErr(c, w, wk, e) ==
    IF GivesUp(wk, e)
    THEN SkipJob([c EXCEPT !.w[w] = [NoWorker EXCEPT !.pc = "recv"]], wk.job)
    ELSE [c EXCEPT !.w[w] = [wk EXCEPT !.pc = "backoff"]]

JobErr(r, w, wk, e) == cyc' = [cyc EXCEPT ![r] = AfterJobErr(@, w, wk, e)]

\* The attempt a worker is about to make: the first one of a job, or the
\* next one when the backoff timer fires.
Attempting(wk) == [wk EXCEPT !.pc = "fetch", !.attempt = IF wk.pc = "backoff" THEN @ + 1 ELSE @]

\* One attempt up to os.Rename: cli.GetFullTitleXMLStream(ctx, j.date,
\* j.title), then Store.SaveSnapshotFromReader streams the body through gzip
\* into a temporary file and renames it to the key's path. The timer, the
\* request and the temporary file are local to the worker, so the step is
\* atomic up to the rename; the worker is inside Save from then on.
FetchAndSaveFile(r, w) ==
    /\ cyc[r].w[w].pc \in {"fetch", "backoff"}
    /\ LET wk == Attempting(cyc[r].w[w])
           fail(e) == JobErr(r, w, wk, e)
       IN IF CtxDone(r)
          THEN /\ fail(cyc[r].ctx)
               /\ UNCHANGED files
          ELSE \/ \E c \in Contents :
                    /\ files' = [files EXCEPT ![JobKey(r, wk.job)] = c]
                    /\ cyc' = [cyc EXCEPT ![r].w[w] = [wk EXCEPT !.pc = "insert"]]
               \/ /\ \E e \in {"timeout", "refused", "unavailable", "status",
                               "toolarge", "storage"} : fail(e)
                  /\ UNCHANGED files
    /\ UNCHANGED <<outside, refreshMu, req, requests, snapshots, lastRefresh>>

\* Store.SaveSnapshotFromReader, INSERT INTO snapshots (no ON CONFLICT clause),
\* then atomic.AddInt64(&downloaded, 1).
SaveInsert(r, w) ==
    /\ cyc[r].w[w].pc = "insert"
    /\ IF CtxDone(r)
       THEN /\ JobErr(r, w, cyc[r].w[w], cyc[r].ctx)
            /\ UNCHANGED snapshots
       ELSE IF JobKey(r, cyc[r].w[w].job) \in snapshots
       THEN /\ JobErr(r, w, cyc[r].w[w], "unique")
            /\ UNCHANGED snapshots
       ELSE \/ /\ snapshots' = snapshots \cup {JobKey(r, cyc[r].w[w].job)}
               /\ cyc' = [cyc EXCEPT ![r].w[w] = [NoWorker EXCEPT !.pc = "recv"],
                                     ![r].downloaded = @ + 1]
            \/ /\ JobErr(r, w, cyc[r].w[w], "storage")
               /\ UNCHANGED snapshots
    /\ UNCHANGED <<outside, refreshMu, req, requests, files, lastRefresh>>

\* select { case <-ctx.Done(): return; case <-t.C: } between two attempts,
\* the first case.
BackoffCancelled(r, w) ==
    /\ cyc[r].w[w].pc = "backoff"
    /\ CtxDone(r)
    /\ cyc' = [cyc EXCEPT ![r].w[w] = [NoWorker EXCEPT !.pc = "exit"]]
    /\ UNCHANGED <<outside, refreshMu, req, requests, store>>

\* wg.Wait() of the download phase returns.
WorkersFinished(r) == \A w \in WorkerIds : cyc[r].w[w].pc = "exit"

WaitWorkers(r) ==
    /\ cyc[r].pc = "wait"
    /\ WorkersFinished(r)
    /\ cyc' = [cyc EXCEPT ![r].pc = "compute"]
    /\ UNCHANGED <<outside, refreshMu, req, requests, store>>

\* ------------------------------------------------- computation and the end
AfterComputeErrIgnored(r, e) == cyc' = [cyc EXCEPT ![r].pc = "setstate"]

\* if err := metrics.ComputeLatest(ctx, st); err != nil { return nil, err }
AfterComputeErr(r, e) == ReturnErr(r, e)

\* metrics.ComputeLatest(ctx, st): it returns an error only when loading the
\* titles or the agencies fails, which a context that is done makes certain.
Compute(r) ==
    /\ cyc[r].pc = "compute"
    /\ IF CtxDone(r)
       THEN AfterComputeErr(r, cyc[r].ctx)
       ELSE \/ cyc' = [cyc EXCEPT ![r].pc = "setstate", ![r].computed = TRUE]
            \/ AfterComputeErr(r, "storage")
    /\ UNCHANGED <<outside, refreshMu, req, requests, store>>

\* Store.SetState(ctx, key, value) for the key "last_refresh": the value
\* stored under the key is replaced.
StoreSetState(value) == lastRefresh' = value

\* st.SetState(ctx, "last_refresh", computedAt); return result, nil
SetState(r) ==
    /\ cyc[r].pc = "setstate"
    /\ IF CtxDone(r)
       THEN /\ ReturnErr(r, cyc[r].ctx)
            /\ UNCHANGED lastRefresh
       ELSE \/ /\ StoreSetState(cyc[r].id)
               /\ cyc' = [cyc EXCEPT ![r].pc = "ret", ![r].wrote = TRUE, ![r].result = "ok"]
            \/ /\ ReturnErr(r, "storage")
               /\ UNCHANGED lastRefresh
    /\ UNCHANGED <<outside, refreshMu, req, requests, snapshots, files>>

\* refreshCurrent returns (defer cancel()), refreshMu.Unlock(); the startup
\* goroutine ends, the daily loop and the HTTP server go on.
Return(r) ==
    /\ cyc[r].pc = "ret"
    /\ refreshMu' = FALSE
    /\ req' = [req EXCEPT ![r] = IF r = "startup" THEN "done" ELSE "idle"]
    /\ cyc' = [cyc EXCEPT ![r] = InitCyc]
    /\ UNCHANGED <<outside, requests, store>>

Next ==
    \E r \in Req :
        \/ Request(r)
        \/ ExtCancel(r)
        \/ Lock(r)
        \/ \E k \in Tasks : TaskRun(r, k) \/ TaskCancel(r, k)
        \/ MetaJoin(r)
        \/ CloseJobs(r)
        \/ WaitWorkers(r)
        \/ Compute(r)
        \/ SetState(r)
        \/ Return(r)
        \/ \E w \in WorkerIds :
              \/ Handoff(r, w)
              \/ WorkerExit(r, w)
              \/ FetchAndSaveFile(r, w)
              \/ SaveInsert(r, w)
              \/ BackoffCancelled(r, w)

Spec == Init /\ [][Next]_vars

\* The steps of refreshCurrent and of its goroutines, for a requester that
\* holds or awaits the lock: all but the arrival of a request and the end of
\* the caller's context, which are the environment's.
Runs(r) ==
    \/ Lock(r)
    \/ \E k \in Tasks : TaskRun(r, k) \/ TaskCancel(r, k)
    \/ MetaJoin(r)
    \/ CloseJobs(r)
    \/ WaitWorkers(r)
    \/ Compute(r)
    \/ SetState(r)
    \/ Return(r)
    \/ \E w \in WorkerIds :
          \/ Handoff(r, w)
          \/ WorkerExit(r, w)
          \/ FetchAndSaveFile(r, w)
          \/ SaveInsert(r, w)
          \/ BackoffCancelled(r, w)

\* The caller followed while the cycle's progress is checked: the daily loop,
\* whose context ends by its deadline, an error that the workers retry.
LiveReq == {"daily"}

LiveNext == \E r \in LiveReq : Request(r) \/ ExtCancel(r) \/ Runs(r)

\* The same cycle with its goroutines scheduled: a step of the cycle that
\* can be taken is taken (the runtime schedules every runnable goroutine, a
\* request ends by its response or the client's timeout, a timer fires).
\* The arrival of a request and the end of its context are left to chance.
SpecLive ==
    Init /\ [][LiveNext]_vars /\ WF_vars(\E r \in LiveReq : Runs(r))

\* ============================================================ the client
\* One call of GetTitles, GetAgencies, GetFullTitleXML or
\* GetFullTitleXMLStream, followed through Client.do. Waits are in
\* milliseconds. Only differences of times matter, so time is measured from
\* the last response: waited is how long the call slept before the attempt
\* it is making, and an HTTP-date of Retry-After is the offset of that date
\* from the moment the response is handled.
maxAttempts == 5
StatusBaseMs == 700
StatusJitterMs == 250
StatusCapMs == 12000
TransportBaseMs == 500
TransportJitterMs == 200
\* time.Second, in nanoseconds; also the base of the limbs below.
Second == 1000000000
NsPerMs == 1000000

\* A 64-bit product does not fit an integer of the checker, so the integers
\* of Retry-After and the durations made of them are written in base 10^9,
\* lowest limb first: <<d1, d2, d3, d4>> is d1 + d2*10^9 + d3*10^18 + d4*10^27.
Limbs == 1..4
Small(n) == <<n, 0, 0, 0>>
\* math.MaxInt64 = 9223372036854775807
MaxInt64 == <<854775807, 223372036, 9, 0>>
\* 2^64 = 18446744073709551616
TwoTo64 == <<709551616, 446744073, 18, 0>>

RECURSIVE LessFrom(_, _, _)
LessFrom(a, b, i) ==
    IF i = 0 THEN FALSE
    ELSE IF a[i] # b[i] THEN a[i] < b[i]
    ELSE LessFrom(a, b, i - 1)
Less(a, b) == LessFrom(a, b, 4)

RECURSIVE Borrow(_, _, _)
Borrow(a, b, i) ==
    IF i = 1 THEN 0
    ELSE IF a[i - 1] - b[i - 1] - Borrow(a, b, i - 1) < 0 THEN 1 ELSE 0
\* a - b, for a >= b.
Minus(a, b) == [i \in Limbs |-> (a[i] - b[i] - Borrow(a, b, i) + Second) % Second]

\* strconv.Atoi on a string of digits: an error when the value is out of the
\* range of int (64 bits).
AtoiOk(v) == ~Less(MaxInt64, v)

\* The product of an int64 by time.Second before it wraps: a shift by a limb.
TimesSecond(v) == <<0, v[1], v[2], v[3]>>

\* A product as the int64 it wraps to: its sign and magnitude.
RECURSIVE Wrap64(_)
Wrap64(p) ==
    IF ~Less(MaxInt64, p) THEN [neg |-> FALSE, mag |-> p]
    ELSE IF Less(p, TwoTo64) THEN [neg |-> TRUE, mag |-> Minus(TwoTo64, p)]
    ELSE Wrap64(Minus(p, TwoTo64))

\* time.Duration(secs) * time.Second
SecondsDuration(v) == Wrap64(TimesSecond(v))

\* The time after which time.NewTimer(d) fires, in ms: at once for d <= 0.
\* (Durations of 10^9 s and more are outside the values followed.)
TimerMs(d) ==
    IF d.neg THEN 0 ELSE d.mag[2] * (Second \div NsPerMs) + d.mag[1] \div NsPerMs

Callers == {"GetTitles", "GetAgencies", "GetFullTitleXML", "GetFullTitleXMLStream"}
\* Statuses the remote may answer with.
Statuses == {200, 204, 404, 429, 500, 502, 503, 504}
\* Retry-After as received: absent, a string of digits (seconds), a date in
\* the layout of RFC 1123 ("Mon, 02 Jan 2006 15:04:05 GMT") or of RFC 1123
\* with a numeric zone, or any other text. v is the number of seconds.
\* at is the offset in ms of the date from the handling of the response.
NoHeader == [kind |-> "absent", v |-> Small(0), at |-> 0]
\* 9223372037 s, whose nanoseconds pass MaxInt64, and 99999999999999999999.
RetryAfterSeconds ==
    {Small(0), Small(2), Small(13), <<223372037, 9, 0, 0>>, <<999999999, 999999999, 99, 0>>}
RetryAfterDates == {-1000, 3000}
RetryAfters ==
    {NoHeader, [kind |-> "text", v |-> Small(0), at |-> 0]}
        \cup [kind : {"int"}, v : RetryAfterSeconds, at : {0}]
        \cup [kind : {"rfc1123", "rfc1123z"}, v : {Small(0)}, at : RetryAfterDates]
\* The headers sent along with a status: 429 with any, 503 with none or one.
HeadersOf(s) ==
    IF s = 429 THEN RetryAfters
    ELSE IF s = 503 THEN {NoHeader, [kind |-> "int", v |-> Small(13), at |-> 0]}
    ELSE {NoHeader}
\* time.Now().UnixNano() % m: any of 0..m-1; the two ends are followed.
Jitters(m) == {0, m - 1}

RECURSIVE Pow2(_)
Pow2(n) == IF n = 0 THEN 1 ELSE 2 * Pow2(n - 1)

\* What one attempt ended with, and lastErr.
Resp(s) == [k |-> "status", s |-> s]
NetErr == [k |-> "net", s |-> 0]
CtxErr == [k |-> "ctx", s |-> 0]
NoErr == [k |-> "none", s |-> 0]

\* res.StatusCode == 429 || ... == 500 || ... == 502 || ... == 503 || ... == 504
IsRetryableStatus(s) == s \in {429, 500, 502, 503, 504}

InLoopOneMore(attempt) == attempt <= maxAttempts

\* for attempt := 0; attempt < maxAttempts; attempt++
InLoop(attempt) == attempt < maxAttempts

\* if attempt < maxAttempts-1
MoreAttempts(attempt) == attempt < maxAttempts - 1

\* delay + jitter after a retryable status, capped at 12 s.
StatusBackoff(attempt, j) ==
    LET sleep == StatusBaseMs * Pow2(attempt) + j
    IN IF sleep > StatusCapMs THEN StatusCapMs ELSE sleep

\* delay + jitter after a transport error.
TransportBackoff(attempt, j) == TransportBaseMs * Pow2(attempt) + j

\* sleepWithRetryAfter: the time the call sleeps. strconv.Atoi first, then
\* time.Parse with RFC1123, then with RFC1123Z; a date in the past waits 0;
\* anything else falls through to the backoff.
RetryAfterWait(s, h, attempt, j) ==
    IF s = 429 /\ h.kind = "int" /\ AtoiOk(h.v) THEN TimerMs(SecondsDuration(h.v))
    ELSE IF s = 429 /\ h.kind \in {"rfc1123", "rfc1123z"} THEN (IF h.at < 0 THEN 0 ELSE h.at)
    ELSE StatusBackoff(attempt, j)

CallerFailsFrom400(status) == status >= 400

\* if res.StatusCode != 200 { ...; return fmt.Errorf("GET %s: status=%d ...") }
CallerFails(status) == status # 200

\* A call just made, on a server that is doing nothing else.
InitClient ==
    /\ RefreshInit /\ Rest({"st", "mt", "tb", "pf"})
    /\ \E fn \in Callers :
        cl = [pc |-> "request", fn |-> fn, attempt |-> 0, log |-> <<>>,
              hdr |-> NoHeader, wait |-> 0, waited |-> 0, ctx |-> "none",
              res |-> 0, err |-> NoErr, out |-> "none"]

\* The caller's answer once do returned: an error, or a result (the decoded
\* list, the body). Decoding the body of a 200 is not followed.
Deliver(c, res, err) ==
    [c EXCEPT !.pc = "done", !.res = res, !.err = err, !.wait = 0,
              !.out = IF err # NoErr \/ CallerFails(res) THEN "error" ELSE "result"]

\* attempt++ and the test of the loop: the next attempt, or return nil, lastErr.
NextTurn(c, lastErr, waited) ==
    IF InLoop(c.attempt + 1)
    THEN [c EXCEPT !.pc = "request", !.attempt = @ + 1, !.err = lastErr,
                   !.wait = 0, !.waited = waited]
    ELSE Deliver(c, 0, lastErr)

\* After a transport error: sleepWithContext(delay + jitter) unless this was
\* the last attempt. A context that is already done ends the sleep at once.
AfterTransportErr(c, e, j) ==
    IF ~MoreAttempts(c.attempt) THEN NextTurn(c, e, 0)
    ELSE IF c.ctx # "none" THEN Deliver(c, 0, CtxErr)
    ELSE [c EXCEPT !.pc = "sleep", !.err = e, !.wait = TransportBackoff(c.attempt, j)]

\* A retryable status: lastErr is set; sleepWithRetryAfter and continue, or
\* on the last attempt fall through to the end of the turn.
AfterRetryableStatus(c, s, h, j) ==
    IF MoreAttempts(c.attempt)
    THEN [c EXCEPT !.pc = "sleep", !.err = Resp(s), !.hdr = h,
                   !.wait = RetryAfterWait(s, h, c.attempt, j)]
    ELSE NextTurn([c EXCEPT !.hdr = h], Resp(s), 0)

\* One turn of the loop of Client.do: c.hc.Do(r) and what follows up to the
\* sleep or the return. A request on a context that is done fails with the
\* context's error.
ClientAttempt ==
    /\ cl.pc = "request"
    /\ IF cl.ctx # "none"
       THEN \E j \in Jitters(TransportJitterMs) :
              cl' = AfterTransportErr([cl EXCEPT !.log = Append(@, CtxErr)], CtxErr, j)
       ELSE \/ \E j \in Jitters(TransportJitterMs) :
                 cl' = AfterTransportErr([cl EXCEPT !.log = Append(@, NetErr)], NetErr, j)
            \/ \E s \in Statuses : \E h \in HeadersOf(s) :
                 LET c == [cl EXCEPT !.log = Append(@, Resp(s))] IN
                 IF IsRetryableStatus(s)
                 THEN \E j \in Jitters(StatusJitterMs) : cl' = AfterRetryableStatus(c, s, h, j)
                 ELSE cl' = Deliver([c EXCEPT !.hdr = h], s, NoErr)
    /\ UNCHANGED outsideClient

TimerFiresRegardless(c) == TRUE

\* select { case <-ctx.Done(): ...; case <-t.C: ... }: the case of the timer
\* is taken when the timer fires first. A context that is done before the
\* timer fires wakes the select with its own case; only a timer of no
\* duration can be ready together with it.
TimerFires(c) == c.ctx = "none" \/ c.wait = 0

\* sleepWithContext, case <-t.C: the timer fired, after the whole of the
\* wait, and the loop goes on.
ClientWake ==
    /\ cl.pc = "sleep"
    /\ TimerFires(cl)
    /\ cl' = NextTurn(cl, cl.err, cl.wait)
    /\ UNCHANGED outsideClient

\* sleepWithContext, case <-ctx.Done(): return ctx.Err().
ClientSleepCancelled ==
    /\ cl.pc = "sleep"
    /\ cl.ctx # "none"
    /\ cl' = Deliver(cl, 0, CtxErr)
    /\ UNCHANGED outsideClient

\* The context of the call is cancelled.
ClientCancel ==
    /\ cl.pc \in {"request", "sleep"}
    /\ cl.ctx = "none"
    /\ cl' = [cl EXCEPT !.ctx = "canceled"]
    /\ UNCHANGED outsideClient

ClientNext == ClientAttempt \/ ClientWake \/ ClientSleepCancelled \/ ClientCancel

SpecClient == InitClient /\ [][ClientNext]_vars

\* ============================================================= the store
\* The snapshot store of internal/store under a sequence of Save calls
\* (SaveSnapshotFromReader), each followed step by step, any of which the
\* process may not survive, with Exists, Read and PreviousDate evaluated on
\* the files and rows as they are. Sizes are in bytes.
MaxSaves == 2
MaxStoreTitle == 2
MaxStoreDate == 2
\* const maxXMLSize = 300 << 20
maxXMLSize == 314572800
\* ioReadAllLimit(r, 200<<20)
ReadLimit == 209715200

StoreTitles == 1..MaxStoreTitle
StoreDates == 1..MaxStoreDate
StoreKeys == StoreTitles \X StoreDates
\* The sizes followed: around the limit of Read and around the cap of Save.
Sizes == {1, ReadLimit, ReadLimit + 1, maxXMLSize, maxXMLSize + 1}
\* An input of Save: size bytes of the content named id.
Datas == [id : Contents, size : Sizes]

\* dir/title-N_DATE.xml.gz, and the name os.CreateTemp makes for a call
\* (fn + ".tmp-*", a name no other file has: here the number of the call).
FinalPath(key) == <<"final", key[1], key[2]>>
StorePaths ==
    {FinalPath(k) : k \in StoreKeys} \cup {<<"tmp", n, 0>> : n \in 1..MaxSaves}

\* A file: the content it compresses, how many bytes of it went in, and
\* whether the gzip stream was ended (gz.Close).
NoFile == [id |-> 0, n |-> 0, closed |-> FALSE, exists |-> FALSE]
Complete(f) == f.exists /\ f.closed

TmpPathIsFinal(op) == FinalPath(op.key)

\* tmpPath := tmp.Name()
TmpPath(op) == <<"tmp", op.id, 0>>

TooLargeNever(n) == FALSE

\* if err == nil && n > maxXMLSize { err = fmt.Errorf("snapshot too large") }
TooLarge(n) == n > maxXMLSize

\* io.LimitReader(r, maxXMLSize+1): the bytes io.Copy gets from an input.
Copied(size) == IF size > maxXMLSize + 1 THEN maxXMLSize + 1 ELSE size

IdleOp == [pc |-> "idle", id |-> 0, key |-> <<0, 0>>, data |-> [id |-> 0, size |-> 0],
           err |-> "none", preFile |-> NoFile, preRow |-> FALSE]
NoQuery == [title |-> 0, before |-> 0, db |-> "none", date |-> 0, found |-> FALSE]

\* An empty data directory and an empty table.
InitStore ==
    /\ RefreshInit /\ Rest({"cl", "mt", "tb", "pf"})
    /\ st = [pc |-> "store", fs |-> [p \in StorePaths |-> NoFile], rows |-> {},
             op |-> IdleOp, saves |-> 0, crashes |-> 0, q |-> NoQuery]

outsideStore == <<refreshVars, cl, mt, tb, pf>>

\* Store.SnapshotExists with a working database.
StoreExists(key) == key \in st.rows

\* Store.ReadSnapshotXML: the row, os.ReadFile, gzip.NewReader, and
\* ioReadAllLimit, which fails past the limit and takes a stream that ends
\* early ("unexpected EOF") as ended.
ReadSnapshotXML(key, db) ==
    LET f == st.fs[FinalPath(key)] IN
    IF db # "ok" \/ key \notin st.rows \/ ~f.exists THEN [ok |-> FALSE, id |-> 0, size |-> 0]
    ELSE IF f.n > ReadLimit THEN [ok |-> FALSE, id |-> 0, size |-> 0]
    ELSE [ok |-> TRUE, id |-> f.id, size |-> f.n]

Earliest(S) == CHOOSE x \in S : \A y \in S : x <= y

\* ORDER BY issue_date DESC LIMIT 1
Latest(S) == CHOOSE x \in S : \A y \in S : y <= x

\* Store.PreviousSnapshotDate: SELECT issue_date ... WHERE title_number=? AND
\* issue_date < ? ORDER BY issue_date DESC LIMIT 1; any error of the query,
\* sql.ErrNoRows among them, is "not found".
PreviousSnapshotDateIn(rows, title, currentDate, db) ==
    LET earlier == {k[2] : k \in {r \in rows : r[1] = title /\ r[2] < currentDate}} IN
    IF db # "ok" \/ earlier = {} THEN [date |-> 0, found |-> FALSE]
    ELSE [date |-> Latest(earlier), found |-> TRUE]

\* The call returns err after the deferred tmp.Close() and os.Remove(tmpPath).
SaveReturns(s, err) ==
    [s EXCEPT !.op.pc = "returned", !.op.err = err,
              !.fs[TmpPath(s.op)] = NoFile]

\* SaveSnapshotFromReader starts: os.CreateTemp(dir, fn+".tmp-*").
SaveCreateTemp ==
    /\ st.op.pc = "idle"
    /\ st.saves < MaxSaves
    /\ \E key \in StoreKeys, data \in Datas :
         LET op == [IdleOp EXCEPT !.id = st.saves + 1, !.key = key, !.data = data,
                                  !.preFile = st.fs[FinalPath(key)],
                                  !.preRow = key \in st.rows]
             s == [st EXCEPT !.op = op, !.saves = @ + 1, !.q = NoQuery]
         IN \/ st' = [s EXCEPT !.op.pc = "copy",
                               !.fs[TmpPath(op)] = [NoFile EXCEPT !.exists = TRUE]]
            \/ st' = [s EXCEPT !.op.pc = "returned", !.op.err = "storage"]
    /\ UNCHANGED outsideStore

\* io.Copy(gz, io.LimitReader(r, maxXMLSize+1)) and the test of n; the
\* reader or the disk may fail on the way.
SaveCopy ==
    /\ st.op.pc = "copy"
    /\ LET n == Copied(st.op.data.size)
           s == [st EXCEPT !.fs[TmpPath(st.op)] =
                              [@ EXCEPT !.id = st.op.data.id, !.n = n]]
       IN \/ st' = IF TooLarge(n) THEN SaveReturns(s, "toolarge")
                   ELSE [s EXCEPT !.op.pc = "close"]
          \/ st' = SaveReturns(st, "read")
    /\ UNCHANGED outsideStore

\* gz.Close() and tmp.Close().
SaveClose ==
    /\ st.op.pc = "close"
    /\ \/ st' = [st EXCEPT !.op.pc = "rename", !.fs[TmpPath(st.op)].closed = TRUE]
       \/ st' = SaveReturns(st, "storage")
    /\ UNCHANGED outsideStore

\* os.Rename(tmpPath, path): the file takes the final name in one step.
SaveRename ==
    /\ st.op.pc = "rename"
    /\ \/ st' = [st EXCEPT !.op.pc = "chmod",
                           !.fs = [@ EXCEPT ![TmpPath(st.op)] = NoFile,
                                            ![FinalPath(st.op.key)] = st.fs[TmpPath(st.op)]]]
       \/ st' = SaveReturns(st, "storage")
    /\ UNCHANGED outsideStore

\* os.Chmod(path, 0o644)
SaveChmod ==
    /\ st.op.pc = "chmod"
    /\ \/ st' = [st EXCEPT !.op.pc = "insert"]
       \/ st' = SaveReturns(st, "storage")
    /\ UNCHANGED outsideStore

\* INSERT INTO snapshots(...): UNIQUE(title_number, issue_date) refuses a
\* second row of a key; the database or the context may fail the statement.
SaveInsertRow ==
    /\ st.op.pc = "insert"
    /\ IF st.op.key \in st.rows
       THEN st' = SaveReturns(st, "unique")
       ELSE \/ st' = SaveReturns([st EXCEPT !.rows = @ \cup {st.op.key}], "none")
            \/ \E e \in {"storage", "canceled"} : st' = SaveReturns(st, e)
    /\ UNCHANGED outsideStore

\* The caller has the result; the store is ready for the next call.
SaveDone ==
    /\ st.op.pc = "returned"
    /\ st' = [st EXCEPT !.op = IdleOp]
    /\ UNCHANGED outsideStore

\* The process ends in the middle of a Save (and is started again): the
\* files and rows stay as they are, the deferred calls do not run.
Crash ==
    /\ st.op.pc \notin {"idle", "returned"}
    /\ st' = [st EXCEPT !.op = IdleOp, !.crashes = 1]
    /\ UNCHANGED outsideStore

\* A call of PreviousSnapshotDate between two Saves.
PreviousDateQuery ==
    /\ st.op.pc = "idle"
    /\ st.q = NoQuery
    /\ st.rows # {}
    /\ \E title \in StoreTitles, before \in 1..(MaxStoreDate + 1), db \in {"ok", "fail"} :
         LET r == PreviousSnapshotDateIn(st.rows, title, before, db) IN
         st' = [st EXCEPT !.q = [title |-> title, before |-> before, db |-> db,
                                 date |-> r.date, found |-> r.found]]
    /\ UNCHANGED outsideStore

StoreNext ==
    \/ SaveCreateTemp \/ SaveCopy \/ SaveClose \/ SaveRename \/ SaveChmod
    \/ SaveInsertRow \/ SaveDone \/ Crash \/ PreviousDateQuery

SpecStore == InitStore /\ [][StoreNext]_vars

\* =========================================================== the metrics
\* One run of metrics.ComputeLatest over a store: the titles table, the
\* snapshots, and the agencies table with the tree of one top-level agency.
\* A text is the sequence of its words; a chapter without text has <<>>.
MaxMetricTitle == 2
MaxMetricDate == 2
MaxRefs == 2
MetricsPerAgency == 5

MTitles == 1..MaxMetricTitle
MDates == 1..MaxMetricDate
MKeys == MTitles \X MDates
Chapters == {"I"}
Texts == {<<>>, <<"x">>, <<"y", "z">>}
\* ecfr.CFRRef: title and chapter ("" when the reference has none).
Refs == [title : MTitles, chapter : Chapters \cup {""}]
RefLists == UNION {[1..n -> Refs] : n \in 0..MaxRefs}
\* What ParseTitleChapters makes of a snapshot: the text of each chapter.
Docs == [Chapters -> Texts]
NoDoc == [c \in Chapters |-> <<>>]
\* A key of the store: no row, a row whose file cannot be read or parsed,
\* or a row whose file parses to a document.
Snaps == {[kind |-> "none", doc |-> NoDoc], [kind |-> "bad", doc |-> NoDoc]}
            \cup [kind : {"doc"}, doc : Docs]
TitleRows == [date : MDates, reserved : BOOLEAN]
MetricNames == <<"word_count", "words_per_chapter", "checksum", "readability", "churn">>
\* The agencies: "a", alone at the top level or the child of "p", which
\* has no references of its own.
Slugs == {"p", "a"}

outsideMetrics == <<refreshVars, cl, st, tb, pf>>

\* flattenAgencyTree: the nodes of the stored trees, each slug once.
Flatten(tree) ==
    IF tree.nested
    THEN <<[slug |-> "p", refs |-> <<>>], [slug |-> "a", refs |-> tree.refs]>>
    ELSE <<[slug |-> "a", refs |-> tree.refs]>>

\* UpsertAgencies: one row of table agencies per top-level agency, its
\* children inside the row's json.
AgencyRows(tree) == IF tree.nested THEN {"p"} ELSE {"a"}

\* The rows of table agency_metrics of a (slug, date): the metrics that have
\* a row, and their values.
EmptyRow == [has |-> {}, wc |-> 0, wpc |-> <<0, 1>>, sum |-> <<>>, fre |-> <<>>,
             churn |-> <<0, 1>>]

Titled(refs) == {refs[i].title : i \in 1..Len(refs)}

\* The store a computation runs on. Titles that the agency does not
\* reference play no part: they are taken not reserved, at date 1 and
\* without snapshots.
InitMetrics ==
    /\ RefreshInit /\ Rest({"cl", "st", "tb", "pf"})
    /\ \E titles \in [MTitles -> TitleRows], snaps \in [MKeys -> Snaps],
          refs \in RefLists, nested \in BOOLEAN :
         /\ \A t \in MTitles \ Titled(refs) :
               /\ titles[t] = [date |-> 1, reserved |-> FALSE]
               /\ \A d \in MDates : snaps[<<t, d>>].kind = "none"
         /\ mt = [pc |-> "start", titles |-> titles, snaps |-> snaps,
                  tree |-> [nested |-> nested, refs |-> refs],
                  i |-> 1, ctx |-> "none", err |-> "none",
                  rows |-> [k \in Slugs \X (0..MaxMetricDate) |-> EmptyRow],
                  run |-> 1, stable |-> FALSE]

\* currentTitleDates: the as-of date of every title that is not reserved
\* (0 for "", the value of a missing key).
currentTitleDates(titles) ==
    [t \in MTitles |-> IF titles[t].reserved THEN 0 ELSE titles[t].date]

\* st.ReadSnapshotXML and ecfr.ParseTitleChapters of a key: the document, or
\* a failure (no row, no file, a bad stream, a context that is done).
ReadDoc(snaps, title, date, ctx) ==
    IF ctx = "none" /\ date \in MDates /\ snaps[<<title, date>>].kind = "doc"
    THEN [ok |-> TRUE, doc |-> snaps[<<title, date>>].doc]
    ELSE [ok |-> FALSE, doc |-> NoDoc]

\* titleChapterText after the loop over the titles (run while the context
\* is live): the document of each title at its current date, if any.
TitleChapterText(m) ==
    [t \in MTitles |-> ReadDoc(m.snaps, t, currentTitleDates(m.titles)[t], "none")]

RefChapterGuessed(ref) == IF ref.chapter = "" THEN "I" ELSE ref.chapter

\* ref.Chapter
RefChapter(ref) == ref.chapter

\* chMap[ref.Chapter]: "" for a chapter the document does not have.
ChapterText(doc, ch) == IF ch \in Chapters THEN doc[ch] ELSE <<>>

\* The text a reference adds to allText: none without a chapter code,
\* without a current date of the title, without its document, or without
\* text of the chapter in it.
Contribution(m, ref) ==
    LET td == currentTitleDates(m.titles)[ref.title]
        r == TitleChapterText(m)[ref.title]
    IN IF RefChapter(ref) = "" \/ td = 0 \/ ~r.ok THEN <<>>
       ELSE ChapterText(r.doc, RefChapter(ref))

RECURSIVE AllText(_, _)
AllText(m, refs) ==
    IF refs = <<>> THEN <<>>
    ELSE Contribution(m, Head(refs)) \o AllText(m, Tail(refs))

\* chapterSet: the refKey of every reference that added text.
ChapterSet(m, refs) ==
    {<<refs[i].title, RefChapter(refs[i])>> :
        i \in {j \in 1..Len(refs) : Contribution(m, refs[j]) # <<>>}}

SkipsNoAgency(text) == FALSE

\* if allText == "" { continue }
SkipsAgency(text) == text = <<>>

RECURSIVE Gcd(_, _)
Gcd(a, b) == IF b = 0 THEN a ELSE Gcd(b, a % b)
\* The float64 of n/d, as the fraction in lowest terms.
Ratio(n, d) == IF n = 0 THEN <<0, 1>> ELSE <<n \div Gcd(n, d), d \div Gcd(n, d)>>

\* The rows of table snapshots.
SnapshotRows(snaps) == {k \in MKeys : snaps[k].kind # "none"}

ComparableEither(ct, pt) == ct # <<>> \/ pt # <<>>

\* if ct == "" || pt == "" { continue }
Comparable(ct, pt) == ct # <<>> /\ pt # <<>>

DiffersNever(ct, pt) == FALSE

\* ecfr.ChecksumHex(ct) != ecfr.ChecksumHex(pt)
Differs(ct, pt) == ct # pt

\* computeChurnBestEffort, the outcome for one (title, chapter) of the
\* grouped, de-duplicated references: "skip", "same" or "changed".
ChurnOf(m, title, ch, ctx) ==
    LET curDate == currentTitleDates(m.titles)[title]
        prev == PreviousSnapshotDateIn(SnapshotRows(m.snaps), title, curDate,
                                       IF ctx = "none" THEN "ok" ELSE "fail")
        cur == ReadDoc(m.snaps, title, curDate, ctx)
        old == ReadDoc(m.snaps, title, prev.date, ctx)
    IN IF curDate = 0 \/ ~prev.found \/ ~cur.ok \/ ~old.ok THEN "skip"
       ELSE IF ~Comparable(ChapterText(cur.doc, ch), ChapterText(old.doc, ch)) THEN "skip"
       ELSE IF Differs(ChapterText(cur.doc, ch), ChapterText(old.doc, ch)) THEN "changed"
       ELSE "same"

\* The (title, chapter) pairs of the references that have a chapter code:
\* m[title] with uniqueStrings applied.
ChurnPairs(refs) ==
    {<<refs[i].title, RefChapter(refs[i])>> :
        i \in {j \in 1..Len(refs) : RefChapter(refs[j]) # ""}}

\* computeChurnBestEffort: changed / total, 0 when total is 0.
Churn(m, refs, ctx) ==
    LET total == {p \in ChurnPairs(refs) : ChurnOf(m, p[1], p[2], ctx) # "skip"}
        changed == {p \in total : ChurnOf(m, p[1], p[2], ctx) = "changed"}
    IN IF total = {} THEN <<0, 1>> ELSE Ratio(Cardinality(changed), Cardinality(total))

\* newestReferencedDateFromMap: the greatest current date among the titles
\* of the references (0 for "").
newestReferencedDateFromMap(m, refs) ==
    LET ds == {currentTitleDates(m.titles)[t] : t \in Titled(refs)} \cup {0}
    IN CHOOSE d \in ds : \A e \in ds : e <= d

\* The values of the five metrics of an agency, in the order of the writes.
\* Readability is a function of the text alone, as the checksum is.
DenomPerOccurrence(m, refs) ==
    LET n == Cardinality({j \in 1..Len(refs) : Contribution(m, refs[j]) # <<>>})
    IN IF n = 0 THEN 1 ELSE n

\* denom := len(chapterSet); if denom == 0 { denom = 1 }
Denom(m, refs) ==
    IF ChapterSet(m, refs) = {} THEN 1 ELSE Cardinality(ChapterSet(m, refs))

MetricValues(m, refs, ctx) ==
    LET text == AllText(m, refs)
        denom == Denom(m, refs)
    IN [wc |-> Len(text), wpc |-> Ratio(Len(text), denom), sum |-> text, fre |-> text,
        churn |-> Churn(m, refs, ctx)]

PutAdding(row, vals, n) ==
    [has |-> row.has \cup {MetricNames[j] : j \in 1..n},
     wc |-> IF n >= 1 THEN row.wc + vals.wc ELSE row.wc,
     wpc |-> IF n >= 2 THEN vals.wpc ELSE row.wpc,
     sum |-> IF n >= 3 THEN row.sum \o vals.sum ELSE row.sum,
     fre |-> IF n >= 4 THEN vals.fre ELSE row.fre,
     churn |-> IF n >= 5 THEN vals.churn ELSE row.churn]

\* PutAgencyMetric for the first n metrics of an agency: INSERT ... ON
\* CONFLICT DO UPDATE of (slug, date, metric).
Put(row, vals, n) ==
    [has |-> row.has \cup {MetricNames[j] : j \in 1..n},
     wc |-> IF n >= 1 THEN vals.wc ELSE row.wc,
     wpc |-> IF n >= 2 THEN vals.wpc ELSE row.wpc,
     sum |-> IF n >= 3 THEN vals.sum ELSE row.sum,
     fre |-> IF n >= 4 THEN vals.fre ELSE row.fre,
     churn |-> IF n >= 5 THEN vals.churn ELSE row.churn]

WriteRowsOfLatestOnly(rows, slug, date, vals, n) ==
    [k \in DOMAIN rows |->
        IF k = <<slug, date>> THEN Put(rows[k], vals, n)
        ELSE IF k[1] = slug /\ n > 0 THEN EmptyRow ELSE rows[k]]

\* The table after the first n of the five writes of (slug, date): no other
\* key is part of the statement.
WriteRows(rows, slug, date, vals, n) ==
    [rows EXCEPT ![<<slug, date>>] = Put(@, vals, n)]

\* FOREIGN KEY(agency_slug) REFERENCES agencies(slug), with _foreign_keys=1:
\* a row of a slug that table agencies does not have is refused.
ForeignKeyOk(m, slug) == slug \in AgencyRows(m.tree)

\* ComputeLatest starts: loadTitles, loadAgencies (which fail on a context
\* that is done), then the loop that reads the snapshot of every title.
MetricsLoad ==
    /\ mt.pc = "start"
    /\ IF mt.ctx # "none"
       THEN mt' = [mt EXCEPT !.pc = "done", !.err = mt.ctx]
       ELSE mt' = [mt EXCEPT !.pc = "agencies"]
    /\ UNCHANGED outsideMetrics

\* One turn of the loop over the agencies: the text, the values, and the
\* five PutAgencyMetric calls, whose errors are discarded. The context may
\* end between two of them: the first n take effect.
MetricsAgency ==
    /\ mt.pc = "agencies"
    /\ mt.i <= Len(Flatten(mt.tree))
    /\ LET a == Flatten(mt.tree)[mt.i]
           date == newestReferencedDateFromMap(mt, a.refs)
           vals == MetricValues(mt, a.refs, mt.ctx)
       IN IF SkipsAgency(AllText(mt, a.refs))
          THEN mt' = [mt EXCEPT !.i = @ + 1]
          ELSE IF mt.ctx # "none" \/ ~ForeignKeyOk(mt, a.slug)
          THEN mt' = [mt EXCEPT !.i = @ + 1]
          ELSE \E n \in 0..MetricsPerAgency :
                 mt' = [mt EXCEPT !.i = @ + 1,
                                  !.rows = WriteRows(@, a.slug, date, vals, n),
                                  !.ctx = IF n < MetricsPerAgency THEN "canceled" ELSE @]
    /\ UNCHANGED outsideMetrics

\* return nil
MetricsReturn ==
    /\ mt.pc = "agencies"
    /\ mt.i > Len(Flatten(mt.tree))
    /\ mt' = [mt EXCEPT !.pc = "done"]
    /\ UNCHANGED outsideMetrics

\* The context of the computation ends between two of its steps.
MetricsCancel ==
    /\ mt.pc \in {"start", "agencies"}
    /\ mt.ctx = "none"
    /\ mt' = [mt EXCEPT !.ctx = "canceled"]
    /\ UNCHANGED outsideMetrics

MetricsNext == MetricsLoad \/ MetricsAgency \/ MetricsReturn \/ MetricsCancel

SpecMetrics == InitMetrics /\ [][MetricsNext]_vars

\* ------------------------------------------------- one computation after
\* another: the ComputeLatest of one refresh cycle, then that of the next,
\* over the same store. Between the two the cycle may have upserted a later
\* as-of date of a title and saved (or failed to save) its snapshot.
MaxRuns == 2

\* The store before the first cycle that computes: every title at date 1,
\* the snapshots of date 1 saved (readable) or missing.
InitHistory ==
    /\ RefreshInit /\ Rest({"cl", "st", "tb", "pf"})
    /\ \E snaps \in [MKeys -> Snaps], refs \in RefLists, nested \in BOOLEAN :
         /\ \A k \in MKeys : /\ snaps[k].kind # "bad"
                             /\ k[2] > 1 => snaps[k].kind = "none"
                             /\ k[1] \notin Titled(refs) => snaps[k].kind = "none"
         /\ mt = [pc |-> "start",
                  titles |-> [t \in MTitles |-> [date |-> 1, reserved |-> FALSE]],
                  snaps |-> snaps,
                  tree |-> [nested |-> nested, refs |-> refs],
                  i |-> 1, ctx |-> "none", err |-> "none",
                  rows |-> [k \in Slugs \X (0..MaxMetricDate) |-> EmptyRow],
                  run |-> 1, stable |-> FALSE]

\* The next cycle computes over the same titles, agencies and snapshots. Its
\* context is new.
MetricsAgain ==
    /\ mt.pc = "done"
    /\ mt.run < MaxRuns
    /\ mt' = [mt EXCEPT !.pc = "start", !.i = 1, !.err = "none", !.run = @ + 1,
                        !.stable = (mt.ctx = "none" /\ mt.err = "none"),
                        !.ctx = "none"]
    /\ UNCHANGED outsideMetrics

\* The next cycle first upserts the titles (title t keeps its date or moves
\* to the next) and downloads the snapshot of t at that date if the store
\* has none: the download saves a snapshot or fails.
MetricsAfterDownload ==
    /\ mt.pc = "done"
    /\ mt.run < MaxRuns
    /\ \E t \in Titled(mt.tree.refs), d \in MDates, snap \in Snaps :
         /\ d \in {mt.titles[t].date, mt.titles[t].date + 1}
         /\ mt.snaps[<<t, d>>].kind = "none"
         /\ d = mt.titles[t].date => snap.kind # "none"
         /\ mt' = [mt EXCEPT !.pc = "start", !.i = 1, !.err = "none", !.run = @ + 1,
                             !.stable = FALSE, !.ctx = "none",
                             !.titles[t].date = d,
                             !.snaps[<<t, d>>] = snap]
    /\ UNCHANGED outsideMetrics

HistoryNext == MetricsNext \/ MetricsAgain \/ MetricsAfterDownload

SpecHistory == InitHistory /\ [][HistoryNext]_vars

\* ===================================================== the metric tables
\* Tables agencies and agency_metrics under PutAgencyMetric and the two
\* queries of the API, LatestAgencyMetric and AgencyMetricSeries.
MaxTableDate == 3
MaxValue == 2
MaxPoints == 3
MaxPuts == 3

TSlugs == {"dot", "nsa"}
TDates == 1..MaxTableDate
TMetrics == {"word_count", "checksum"}
\* value_num and value_text of a row: a number with no text for word_count,
\* a text with no number for checksum, as the computation writes them.
TNums == [kind : {"num"}, n : 1..MaxValue, t : {""}]
TTexts == [kind : {"text"}, n : {0}, t : {"abc", "def"}]
TRows == [slug : TSlugs, date : TDates, metric : {"word_count"}, value : TNums]
           \cup [slug : TSlugs, date : TDates, metric : {"checksum"}, value : TTexts]
\* agencies.name of a slug.
NameOf(slug) == IF slug = "dot" THEN "Department of Testing" ELSE "Numbers"
\* ORDER BY a.name, for the names above: "dot" before "nsa".
NameRank(slug) == IF slug = "dot" THEN 1 ELSE 2

outsideTable == <<refreshVars, cl, st, mt, pf>>

NoTableQuery == [op |-> "none", metric |-> "", slug |-> "", days |-> 0]

\* A new store: both tables empty.
InitTable ==
    /\ RefreshInit /\ Rest({"cl", "st", "mt", "pf"})
    /\ tb = [pc |-> "table", agencies |-> {}, rows |-> {}, puts |-> 0,
             q |-> NoTableQuery, out |-> <<>>, err |-> FALSE]

SameKey(r, slug, date, metric) == r.slug = slug /\ r.date = date /\ r.metric = metric

InsertOnly(rows, row) == rows \cup {row}

\* INSERT ... ON CONFLICT(agency_slug, issue_date, metric) DO UPDATE SET
\* value_num, value_text.
Upsert(rows, row) ==
    {r \in rows : ~SameKey(r, row.slug, row.date, row.metric)} \cup {row}

\* UpsertAgencies for one top-level agency.
TableUpsertAgency ==
    /\ tb.pc = "table"
    /\ \E slug \in TSlugs :
         /\ slug \notin tb.agencies
         /\ tb' = [tb EXCEPT !.agencies = @ \cup {slug}, !.q = NoTableQuery, !.out = <<>>,
                             !.err = FALSE]
    /\ UNCHANGED outsideTable

\* PutAgencyMetric: the foreign key refuses a slug that table agencies does
\* not have.
TablePut ==
    /\ tb.pc = "table"
    /\ tb.puts < MaxPuts
    /\ \E row \in TRows :
         tb' = [tb EXCEPT !.puts = @ + 1, !.q = NoTableQuery, !.out = <<>>,
                          !.err = row.slug \notin tb.agencies,
                          !.rows = IF row.slug \in tb.agencies THEN Upsert(@, row) ELSE @]
    /\ UNCHANGED outsideTable

OldestDate(rows, slug, metric) ==
    LET ds == {r.date : r \in {x \in rows : x.slug = slug /\ x.metric = metric}}
    IN CHOOSE d \in ds : \A e \in ds : d <= e

\* (SELECT MAX(issue_date) FROM agency_metrics m2 WHERE m2.agency_slug =
\* m.agency_slug AND m2.metric = m.metric)
NewestDate(rows, slug, metric) ==
    LET ds == {r.date : r \in {x \in rows : x.slug = slug /\ x.metric = metric}}
    IN CHOOSE d \in ds : \A e \in ds : e <= d

\* The rows that the query of LatestAgencyMetric selects: joined with
\* agencies, of the metric, at the newest date of their slug.
LatestSelected(t, metric) ==
    {r \in t.rows : /\ r.slug \in t.agencies
                    /\ r.metric = metric
                    /\ r.date = NewestDate(t.rows, r.slug, metric)}

\* The map built from a selected row: slug, name, date and value.
LatestRow(r) == [slug |-> r.slug, name |-> NameOf(r.slug), date |-> r.date, value |-> r.value]

ByName(r, x) == NameRank(r.slug) <= NameRank(x.slug)

\* A set of selected rows (one per slug) in the order of ORDER BY a.name.
RECURSIVE OrderedByName(_)
OrderedByName(S) ==
    IF S = {} THEN <<>>
    ELSE LET first == CHOOSE r \in S : \A x \in S \ {r} : ByName(r, x)
         IN <<first>> \o OrderedByName(S \ {first})

\* LatestAgencyMetric: the selected rows, ORDER BY a.name.
LatestAgencyMetric(t, metric) ==
    LET sel == OrderedByName(LatestSelected(t, metric))
    IN [i \in 1..Len(sel) |-> LatestRow(sel[i])]

ByDateAscending(r, x) == r.date <= x.date

\* ORDER BY issue_date DESC
ByDateDescending(r, x) == r.date >= x.date

\* The rows of one (slug, metric), one per date, in the order of the ORDER BY.
RECURSIVE OrderedByDate(_)
OrderedByDate(S) ==
    IF S = {} THEN <<>>
    ELSE LET first == CHOOSE r \in S : \A x \in S \ {r} : ByDateDescending(r, x)
         IN <<first>> \o OrderedByDate(S \ {first})

\* LIMIT ?: the first n rows; a negative n is no limit.
Limit(seq, n) ==
    IF n < 0 \/ n >= Len(seq) THEN seq ELSE SubSeq(seq, 1, n)

\* AgencyMetricSeries: date and value of the rows of (slug, metric), newest
\* first, at most `days` of them.
AgencyMetricSeries(t, slug, metric, days) ==
    LET sel == Limit(OrderedByDate({r \in t.rows : r.slug = slug /\ r.metric = metric}),
                     days)
    IN [i \in 1..Len(sel) |-> [date |-> sel[i].date, value |-> sel[i].value]]

\* GET /api/metrics/latest?metric=...
TableLatest ==
    /\ tb.pc = "table"
    /\ \E metric \in TMetrics :
         tb' = [tb EXCEPT !.q = [op |-> "latest", metric |-> metric, slug |-> "", days |-> 0],
                          !.out = LatestAgencyMetric(tb, metric), !.err = FALSE]
    /\ UNCHANGED outsideTable

\* GET /api/metrics/agency/{slug}/timeseries?metric=...&days=..., and the
\* series read by the insights.
TableSeries ==
    /\ tb.pc = "table"
    /\ \E slug \in TSlugs, metric \in TMetrics, days \in 0..MaxPoints :
         tb' = [tb EXCEPT !.q = [op |-> "series", metric |-> metric, slug |-> slug,
                                 days |-> days],
                          !.out = AgencyMetricSeries(tb, slug, metric, days), !.err = FALSE]
    /\ UNCHANGED outsideTable

TableNext == TableUpsertAgency \/ TablePut \/ TableLatest \/ TableSeries

SpecTable == InitTable /\ [][TableNext]_vars

\* ============================================================== the text
\* ecfr.WordCount over texts of a few runes: a letter, a digit, a space and
\* a punctuation mark.
MaxTextLen == 7

Runes == {"a", "1", " ", "."}
Strings == UNION {[1..n -> Runes] : n \in 0..MaxTextLen}

outsideText == <<refreshVars, cl, st, mt, tb>>

IsLetterOrDigitOrPunct(r) == r \in {"a", "1", "."}

\* unicode.IsLetter(r) || unicode.IsDigit(r)
IsLetterOrDigit(r) == r \in {"a", "1"}

\* The loop of WordCount from rune i on, with its locals inWord and n.
RECURSIVE WordCountFrom(_, _, _, _)
WordCountFrom(s, i, inWord, n) ==
    IF i > Len(s) THEN n
    ELSE IF IsLetterOrDigit(s[i])
         THEN WordCountFrom(s, i + 1, TRUE, IF inWord THEN n ELSE n + 1)
         ELSE WordCountFrom(s, i + 1, FALSE, n)

WordCount(s) == WordCountFrom(s, 1, FALSE, 0)

\* s with rune r put after its first p runes, and s without its rune p.
InsertAt(s, p, r) == SubSeq(s, 1, p) \o <<r>> \o SubSeq(s, p + 1, Len(s))
RemoveAt(s, p) == SubSeq(s, 1, p - 1) \o SubSeq(s, p + 1, Len(s))

NoEdit == [kind |-> "none", p |-> 0]

\* A text, before it is counted.
InitText ==
    /\ RefreshInit /\ Rest({"cl", "st", "mt", "tb"})
    /\ \E s \in Strings : pf = [pc |-> "text", s |-> s, n |-> 0, edit |-> NoEdit]

\* n := WordCount(s)
TextCount ==
    /\ pf.pc = "text"
    /\ pf' = [pf EXCEPT !.pc = "counted", !.n = WordCount(pf.s)]
    /\ UNCHANGED outsideText

\* The text gets one more space or punctuation mark, and is counted again.
TextInsert ==
    /\ pf.pc = "counted"
    /\ Len(pf.s) < MaxTextLen
    /\ \E p \in 0..Len(pf.s), r \in {" ", "."} :
         pf' = [pf EXCEPT !.s = InsertAt(@, p, r), !.n = WordCount(InsertAt(pf.s, p, r)),
                          !.edit = [kind |-> "insert", p |-> p]]
    /\ UNCHANGED outsideText

\* The text loses a space or a punctuation mark, and is counted again.
TextRemove ==
    /\ pf.pc = "counted"
    /\ \E p \in 1..Len(pf.s) :
         /\ pf.s[p] \in {" ", "."}
         /\ pf' = [pf EXCEPT !.s = RemoveAt(@, p), !.n = WordCount(RemoveAt(pf.s, p)),
                             !.edit = [kind |-> "remove", p |-> p]]
    /\ UNCHANGED outsideText

TextNext == TextCount \/ TextInsert \/ TextRemove

SpecText == InitText /\ [][TextNext]_vars

\* ======================================================= the chapter texts
\* ParseTitleChapters over a document given as its token sequence, and the
\* lookup of one reference's chapter code in the result.
MaxTokens == 5

\* The labels a chapter marker can carry, and the chapter codes a reference
\* can carry ("" is no code).
Labels == {"I", "II"}
Buckets == {"UNKNOWN"} \cup Labels
RefCodes == {"", "I", "UNKNOWN"}

\* Character data: blank, one word, and two words among spaces and newlines.
Frags == {<<" ">>, <<"a">>, <<"\n", "b", " ", "\n", "c", " ">>}

\* The tokens of xml.Decoder: a start element (a DIV1/DIV2/DIV3 of
\* TYPE="CHAPTER" with its N attribute, or any other element), an end
\* element, character data, and a syntax error that ends the decoding.
Marker(n) == [kind |-> "start", chapter |-> TRUE, n |-> n, s |-> <<>>]
OtherStart == [kind |-> "start", chapter |-> FALSE, n |-> "I", s |-> <<>>]
EndTag == [kind |-> "end", chapter |-> FALSE, n |-> "", s |-> <<>>]
Chars(s) == [kind |-> "chars", chapter |-> FALSE, n |-> "", s |-> s]
BadToken == [kind |-> "bad", chapter |-> FALSE, n |-> "", s |-> <<>>]
Tokens ==
    {Marker(n) : n \in Labels \cup {""}} \cup {OtherStart, EndTag, BadToken}
       \cup {Chars(s) : s \in Frags}
Documents == UNION {[1..n -> Tokens] : n \in 0..MaxTokens}

IsSpace(c) == c \in {" ", "\n"}

RECURSIVE TrimLeft(_)
TrimLeft(s) ==
    IF s = <<>> THEN s ELSE IF IsSpace(Head(s)) THEN TrimLeft(Tail(s)) ELSE s

RECURSIVE TrimRight(_)
TrimRight(s) ==
    IF s = <<>> THEN s
    ELSE IF IsSpace(s[Len(s)]) THEN TrimRight(SubSeq(s, 1, Len(s) - 1)) ELSE s

\* strings.TrimSpace
TrimSpace(s) == TrimRight(TrimLeft(s))

\* wsRe.ReplaceAllString(s, " ") with wsRe = `\s+`: every run of white space
\* becomes one space.
RECURSIVE CollapseSpace(_)
CollapseSpace(s) ==
    IF s = <<>> THEN <<>>
    ELSE IF IsSpace(Head(s)) THEN <<" ">> \o CollapseSpace(TrimLeft(s))
    ELSE <<Head(s)>> \o CollapseSpace(Tail(s))

normalizeText(s) ==
    IF TrimSpace(s) = <<>> THEN <<>> ELSE CollapseSpace(TrimSpace(s))

\* chapters := map[string]*ChapterAgg{}: no entry.
NoBucket == [has |-> FALSE, text |-> <<>>]

\* currentChapter := "UNKNOWN"; agg := get(currentChapter)
InitParse ==
    /\ RefreshInit /\ Rest({"cl", "st", "mt", "tb"})
    /\ \E doc \in Documents :
         pf = [pc |-> "tokens", doc |-> doc, pos |-> 1, current |-> "UNKNOWN",
               chapters |-> [b \in Buckets |-> [NoBucket EXCEPT !.has = (b = "UNKNOWN")]],
               out |-> [b \in Buckets |-> NoBucket],
               ref |-> "", txt |-> <<>>, attributed |-> FALSE]

outsideParse == <<refreshVars, cl, st, mt, tb>>

SwitchesOnAnyStart(t) == t.kind = "start" /\ t.n # ""

\* DIV1/2/3 with TYPE=CHAPTER and n != "": currentChapter = n; agg = get(n)
Switches(t) == t.kind = "start" /\ t.chapter /\ t.n # ""

\* One turn of the loop over dec.Token().
ParseToken ==
    /\ pf.pc = "tokens"
    /\ pf.pos <= Len(pf.doc)
    /\ LET t == pf.doc[pf.pos]
           s == normalizeText(t.s)
       IN IF t.kind = "bad"
          THEN pf' = [pf EXCEPT !.pc = "failed"]
          ELSE IF Switches(t)
          THEN pf' = [pf EXCEPT !.pos = @ + 1, !.current = t.n,
                                !.chapters[t.n].has = TRUE]
          ELSE IF t.kind = "chars" /\ s # <<>>
          THEN pf' = [pf EXCEPT !.pos = @ + 1,
                                !.chapters[pf.current].text = @ \o s \o <<" ">>]
          ELSE pf' = [pf EXCEPT !.pos = @ + 1]
    /\ UNCHANGED outsideParse

\* io.EOF: out[ch] = wsRe.ReplaceAllString(a.Text.String(), " ") for every
\* entry of chapters.
ParseReturn ==
    /\ pf.pc = "tokens"
    /\ pf.pos > Len(pf.doc)
    /\ pf' = [pf EXCEPT !.pc = "parsed",
                        !.out = [b \in Buckets |->
                                   IF pf.chapters[b].has
                                   THEN [has |-> TRUE, text |-> CollapseSpace(pf.chapters[b].text)]
                                   ELSE NoBucket]]
    /\ UNCHANGED outsideParse

\* computeWithTitleDates for one reference to the parsed title: a reference
\* without a chapter code is passed over; txt := chMap[ref.Chapter]; a
\* reference with txt == "" is passed over; else the text is the agency's.
AttributeRef ==
    /\ pf.pc = "parsed"
    /\ \E code \in RefCodes :
         LET txt == IF code \in Buckets /\ pf.out[code].has THEN pf.out[code].text ELSE <<>>
         IN pf' = [pf EXCEPT !.pc = "attributed", !.ref = code,
                             !.txt = IF code = "" THEN <<>> ELSE txt,
                             !.attributed = (code # "" /\ txt # <<>>)]
    /\ UNCHANGED outsideParse

ParseNext == ParseToken \/ ParseReturn \/ AttributeRef

SpecParse == InitParse /\ [][ParseNext]_vars

\* ================================================== the organization tree
\* loadAgencies and flattenAgencyTree over the rows of table agencies, each
\* holding the tree of one top-level organization as JSON.
MaxChildren == 2

FSlugs == {"a", "b"}
\* The name stands for what a record carries besides its slug: its name and
\* its references.
FNames == {"m", "n"}
FNameRank(n) == IF n = "m" THEN 1 ELSE 2

\* ecfr.Agency: organizations without children, with up to MaxChildren such
\* children, and with one child that has at most one child of its own.
Leaves == [slug : FSlugs, name : FNames, children : {<<>>}]
Parents ==
    [slug : FSlugs, name : FNames,
     children : UNION {[1..n -> Leaves] : n \in 0..MaxChildren}]
Grandparents ==
    [slug : FSlugs, name : FNames,
     children : {<<c>> : c \in {p \in Parents : Len(p.children) <= 1}}]
Trees == Parents \cup Grandparents

\* The rows of table agencies in the order the query yields them: slug is
\* the table's primary key, so the top-level slugs differ.
AgencyTables ==
    {<<t>> : t \in Trees} \cup
    {<<t, u>> : t \in {x \in Trees : x.slug = "a"}, u \in {x \in Trees : x.slug = "b"}} \cup
    {<<t, u>> : t \in {x \in Trees : x.slug = "b"}, u \in {x \in Trees : x.slug = "a"}}

NoAgency == [slug |-> "", name |-> "", children |-> <<>>]

InitFlatten ==
    /\ RefreshInit /\ Rest({"cl", "st", "mt", "tb"})
    /\ \E rows \in AgencyTables :
         pf = [pc |-> "rows", rows |-> rows, walk |-> <<>>, out |-> <<>>]

\* walk: out = append(out, record of a); for _, c := range a.Children { walk(c) }
RECURSIVE Walk(_)
RECURSIVE WalkAll(_)
Walk(a) == <<a>> \o WalkAll(a.children)
WalkAll(as) == IF as = <<>> THEN <<>> ELSE Walk(Head(as)) \o WalkAll(Tail(as))

RECURSIVE SeenFirst(_, _)
SeenFirst(out, n) ==
    IF n = 0 THEN [s \in FSlugs |-> NoAgency]
    ELSE LET before == SeenFirst(out, n - 1) IN
         IF before[out[n].slug] = NoAgency
         THEN [before EXCEPT ![out[n].slug] = out[n]] ELSE before

\* for _, r := range out { seen[r.Slug] = r }, over the first n records.
RECURSIVE Seen(_, _)
Seen(out, n) ==
    IF n = 0 THEN [s \in FSlugs |-> NoAgency]
    ELSE [Seen(out, n - 1) EXCEPT ![out[n].slug] = out[n]]

\* The orders in which the records of seen can be returned: the map is
\* ranged over in any order and sort.Slice orders by Name, equal names in
\* any order.
SortedByName(S) ==
    {q \in UNION {[1..n -> S] : n \in {Cardinality(S)}} :
        /\ \A i, j \in 1..Len(q) : i # j => q[i] # q[j]
        /\ \A i \in 1..(Len(q) - 1) : FNameRank(q[i].name) <= FNameRank(q[i + 1].name)}

\* for _, r := range in { walk(r.Raw) }
FlattenWalk ==
    /\ pf.pc = "rows"
    /\ pf' = [pf EXCEPT !.pc = "walked", !.walk = WalkAll(pf.rows)]
    /\ UNCHANGED outsideParse

\* The records by slug, then out[:0], the append of every record of seen,
\* and the sort.
FlattenReturn ==
    /\ pf.pc = "walked"
    /\ LET seen == Seen(pf.walk, Len(pf.walk))
           kept == {seen[s] : s \in {x \in FSlugs : seen[x] # NoAgency}}
       IN \E q \in SortedByName(kept) :
            pf' = [pf EXCEPT !.pc = "flattened", !.out = q]
    /\ UNCHANGED outsideParse

FlattenNext == FlattenWalk \/ FlattenReturn

SpecFlatten == InitFlatten /\ [][FlattenNext]_vars

\* ====================================================== the refresh cycle
Running == {r \in Req : req[r] = "running"}
Started(r) == cyc[r].pc # "idle"
Key(j) == <<j.title, j.date>>
InSave(wk) == wk.pc = "insert"
OnJob(wk) == wk.pc \in {"fetch", "backoff", "insert"}

\* C1: at most one refreshCurrent call is executing at any time: no two
\* requesters (startup task, daily timer, POST /api/refresh) are inside
\* refreshCurrent together, a call is executing exactly while the mutex is
\* held, and a requester that waits has not started its call.
C1_OneCycleAtATime ==
    /\ Cardinality({r \in Req : Started(r)}) <= 1
    /\ \A r \in Req : Started(r) <=> req[r] = "running"
    /\ refreshMu <=> Running # {}

\* C1 witness: a refresh is requested while another cycle is in its download
\* phase, and waits.
C1_Witness ==
    \E r1, r2 \in Req :
        /\ r1 # r2
        /\ req[r1] = "running" /\ cyc[r1].pc = "send"
        /\ req[r2] = "waiting"

\* C2: within a cycle the phases are ordered: once the call is past the
\* metadata phase both metadata tasks have finished (so no worker fetches or
\* saves before that), and while the computation or anything after it runs
\* every download worker has exited, none being inside Save.
C2_PhasesOrdered ==
    \A r \in Req :
        /\ (cyc[r].pc \in {"send", "wait", "compute", "setstate"}
              \/ \E w \in WorkerIds : cyc[r].w[w].pc # "none")
             => \A k \in Tasks : cyc[r].task[k] \in {"done", "failed"}
        /\ cyc[r].pc \in {"compute", "setstate"}
             => \A w \in WorkerIds : cyc[r].w[w].pc \in {"none", "exit"}

\* C2 witness: the computation is about to run after workers downloaded a
\* snapshot and exited.
C2_Witness ==
    \E r \in Req :
        /\ cyc[r].pc = "compute"
        /\ cyc[r].downloaded > 0
        /\ \A w \in WorkerIds : cyc[r].w[w].pc = "exit"

MetaFailed(r) == \E k \in Tasks : cyc[r].task[k] \in {"cancel", "failed"}

\* C3: if a metadata task fails, the context of the cycle is cancelled (as
\* soon as the task has ended), the sibling task cannot succeed on it any
\* more, and the cycle returns an error: no job is built or dispatched, no
\* worker starts, nothing is computed, last_refresh is not written.
C3_MetadataFailureAborts ==
    \A r \in Req :
        MetaFailed(r) =>
            /\ cyc[r].pc \in {"meta", "ret"}
            /\ cyc[r].pc = "ret" => cyc[r].result = "err" /\ cyc[r].err = Head(cyc[r].errCh)
            /\ (\E k \in Tasks : cyc[r].task[k] = "failed") => CtxDone(r)
            /\ cyc[r].jobs = <<>> /\ cyc[r].sendIdx = 1
            /\ \A w \in WorkerIds : cyc[r].w[w].pc = "none"
            /\ ~cyc[r].computed /\ ~cyc[r].wrote /\ lastRefresh # cyc[r].id

\* C3 witness: the agencies task failed on the remote's answer, the titles
\* task was aborted by the cancellation, and the cycle returned the error.
C3_Witness ==
    \E r \in Req :
        /\ cyc[r].pc = "ret"
        /\ cyc[r].errCh = <<"status", "canceled">>
        /\ cyc[r].task = [k \in Tasks |-> "failed"]
        /\ ~cyc[r].ext

\* C4: a failed download job is skipped without cancelling anything: while
\* the caller's context has not ended, a job failure leaves the context of
\* the cycle live; and a cycle that had a failed job returns success unless
\* the caller's context ended or the store failed, with every job handed to a
\* worker and either saved or failed, the metrics computed and last_refresh
\* written.
C4_JobFailureIsolated ==
    \A r \in Req :
        /\ (cyc[r].failed # {} /\ ~cyc[r].ext) => ~CtxDone(r)
        /\ (cyc[r].pc = "ret" /\ cyc[r].failed # {} /\ ~cyc[r].ext /\ cyc[r].err # "storage")
             => /\ cyc[r].result = "ok"
                /\ cyc[r].computed /\ cyc[r].wrote /\ lastRefresh = cyc[r].id
                /\ cyc[r].sendIdx = Len(cyc[r].jobs) + 1
                /\ cyc[r].downloaded + Cardinality(cyc[r].failed) = Len(cyc[r].jobs)

\* C4 witness: a cycle returns success with one job failed and its sibling
\* downloaded.
C4_Witness ==
    \E r \in Req :
        /\ cyc[r].pc = "ret" /\ cyc[r].result = "ok"
        /\ cyc[r].failed # {} /\ cyc[r].downloaded > 0

\* C5: last_refresh is written only by the last step of a cycle whose two
\* metadata tasks and whose computation succeeded, and which then returns
\* success; a cycle that returns an error has not changed last_refresh.
C5_TimestampOnlyOnSuccess ==
    \A r \in Req :
        /\ Started(r) => (lastRefresh = cyc[r].id <=> cyc[r].wrote)
        /\ cyc[r].wrote =>
              /\ cyc[r].pc = "ret" /\ cyc[r].result = "ok"
              /\ cyc[r].computed
              /\ \A k \in Tasks : cyc[r].task[k] = "done"
        /\ (cyc[r].pc = "ret" /\ cyc[r].result = "err") => ~cyc[r].wrote

\* C5 witness: a cycle returns an error after an earlier cycle wrote
\* last_refresh, which still holds the earlier value.
C5_Witness ==
    \E r \in Req :
        /\ cyc[r].pc = "ret" /\ cyc[r].result = "err"
        /\ lastRefresh # 0 /\ lastRefresh # cyc[r].id

\* C6: snapshots are write-once: a cycle's jobs are the keys of the
\* non-reserved divisions without a snapshot at dispatch, no worker fetches or
\* saves a key that has a snapshot, and the file of a key that has a snapshot
\* never changes.
C6_WriteOnce ==
    /\ [](\A r \in Req : \A w \in WorkerIds :
            OnJob(cyc[r].w[w]) => JobKey(r, cyc[r].w[w].job) \notin snapshots)
    /\ [][\A k \in snapshots : k \in snapshots' /\ files'[k] = files[k]]_vars

\* C7: within a cycle no two download jobs have the same (division, date)
\* key, and no two workers are inside Save for the same key.
C7_OneSaverPerKey ==
    \A r \in Req :
        /\ \A i, j \in 1..Len(cyc[r].jobs) :
              i # j => Key(cyc[r].jobs[i]) # Key(cyc[r].jobs[j])
        /\ \A w1, w2 \in WorkerIds :
              (w1 # w2 /\ InSave(cyc[r].w[w1]) /\ InSave(cyc[r].w[w2]))
                 => JobKey(r, cyc[r].w[w1].job) # JobKey(r, cyc[r].w[w2].job)


\* ------------------------------------------------------------ the client
Retried(e) == e.k \in {"net", "ctx"} \/ (e.k = "status" /\ IsRetryableStatus(e.s))
Returned == cl.pc = "done"
Last == cl.log[Len(cl.log)]
StatusesOf(log) == [i \in 1..Len(log) |-> log[i].s]

\* C8: a call makes at most 5 attempts; a response is returned exactly when
\* its status is none of 429, 500, 502, 503, 504, and it is the first such
\* response of the call; a call whose 5 attempts all ended with a retryable
\* status or a transport error returns the error of the 5th.
C8_BoundedAttempts ==
    /\ Len(cl.log) <= 5
    /\ \A i \in 1..Len(cl.log) :
         ~Retried(cl.log[i]) =>
            /\ i = Len(cl.log)
            /\ Returned /\ cl.err = NoErr /\ cl.res = cl.log[i].s
    /\ (Returned /\ cl.err = NoErr) =>
            /\ Len(cl.log) >= 1
            /\ cl.res \notin {429, 500, 502, 503, 504}
            /\ cl.res = Last.s
    /\ (Len(cl.log) = 5 /\ Retried(Last)) => (Returned /\ cl.err = Last)

\* Three 503 and then a 200: the call has returned the 200 to a caller that
\* got a result.
C8_Witness ==
    /\ Returned
    /\ StatusesOf(cl.log) = <<503, 503, 503, 200>>
    /\ cl.res = 200 /\ cl.out = "result"

\* C9: a response whose status is none of 429, 500, 502, 503, 504 ends the
\* call at that attempt, with no sleep after it; when that status is not 200
\* the caller has an error and no result.
C9_TerminalStatus ==
    /\ [](\A i \in 1..Len(cl.log) :
         (cl.log[i].k = "status" /\ cl.log[i].s \notin {429, 500, 502, 503, 504}) =>
            /\ i = Len(cl.log)
            /\ cl.pc = "done" /\ cl.wait = 0
            /\ cl.res = cl.log[i].s
            /\ (cl.log[i].s # 200 => cl.out = "error")
            /\ (cl.log[i].s = 200 => cl.out = "result"))
    /\ [][\A s \in Statuses \ {429, 500, 502, 503, 504} :
            (Len(cl.log') = Len(cl.log) + 1 /\ cl.log'[Len(cl.log')] = Resp(s))
                => cl'.pc = "done"]_vars

\* A 404 at the first attempt: the call is over and the caller has an error.
C9_Witness ==
    /\ Returned
    /\ StatusesOf(cl.log) = <<404>>
    /\ cl.out = "error"

\* An attempt that follows a sleep.
Resumed == cl.pc = "request" /\ cl.attempt > 0 /\ Len(cl.log) = cl.attempt
After429With(kinds) == Last = Resp(429) /\ cl.hdr.kind \in kinds
\* waited is at least the v seconds of the header.
WaitedSeconds(v) ==
    /\ v[2] = 0 /\ v[3] = 0 /\ v[4] = 0
    /\ cl.waited \div 1000 >= v[1]

\* C10: an attempt that follows a 429 with Retry-After of n seconds starts
\* no sooner than n seconds after it, one that follows a 429 with a date
\* starts no sooner than that date, and any other attempt after the first
\* starts after a wait of base * 2^attempt plus a jitter, of at most 12 s.
C10_RetryAfterHonoured ==
    Resumed =>
        IF After429With({"int"}) THEN WaitedSeconds(cl.hdr.v)
        ELSE IF After429With({"rfc1123", "rfc1123z"}) THEN cl.waited >= cl.hdr.at
        ELSE /\ cl.waited <= 12000
             /\ IF Last.k = "status"
                THEN /\ cl.waited >= 700 * Pow2(cl.attempt - 1)
                     /\ cl.waited < 700 * Pow2(cl.attempt - 1) + 250
                ELSE /\ cl.waited >= 500 * Pow2(cl.attempt - 1)
                     /\ cl.waited < 500 * Pow2(cl.attempt - 1) + 200

\* The same, for the seconds whose nanoseconds fit 64 bits.
C10_HonouredInRange ==
    (Resumed /\ After429With({"int"}) /\ ~AtoiOk(TimesSecond(cl.hdr.v)))
        \/ C10_RetryAfterHonoured

\* A 429 with Retry-After: 2, and the next attempt 2 s later.
C10_Witness ==
    /\ Resumed
    /\ After429With({"int"})
    /\ cl.hdr.v = Small(2)
    /\ cl.waited = 2000


\* C11: once the context of a call is cancelled, a wait in progress ends
\* with the call returning the cancellation error (the wait is not
\* completed), the one attempt that can still start fails with the error of
\* the context, no wait is started and no response is received any more, and
\* the call returns the cancellation error to a caller that gets no result.
C11_CancellationEndsCall ==
    /\ [](Returned /\ cl.ctx # "none" => cl.err = CtxErr /\ cl.out = "error")
    /\ [][cl.ctx # "none" =>
            /\ (cl.pc = "sleep" /\ cl.wait > 0) => (cl'.pc = "done" /\ cl'.err = CtxErr)
            /\ cl.pc # "sleep" => cl'.pc # "sleep"
            /\ cl'.log # cl.log =>
                  /\ cl'.log = Append(cl.log, CtxErr)
                  /\ cl'.pc = "done" /\ cl'.err = CtxErr
       ]_vars

\* A call cancelled while it waited after a 503: it returned the cancellation
\* error with the wait cut short and no further attempt.
C11_Witness ==
    /\ Returned /\ cl.ctx # "none"
    /\ cl.err = CtxErr
    /\ Last = Resp(503)
    /\ cl.attempt = Len(cl.log) - 1


\* ------------------------------------------------------------- the store
SaveReturned == st.pc = "store" /\ st.op.pc = "returned"
SavedData == [ok |-> TRUE, id |-> st.op.data.id, size |-> st.op.data.size]

\* C12: after a Save that succeeded, Exists of its key is true and Read of
\* its key succeeds and returns the content that was saved.
C12_RoundTrip ==
    (SaveReturned /\ st.op.err = "none") =>
        /\ StoreExists(st.op.key)
        /\ ReadSnapshotXML(st.op.key, "ok") = SavedData

\* The same for the inputs that Read takes whole.
C12_RoundTripUpToReadLimit ==
    (SaveReturned /\ st.op.err = "none" /\ st.op.data.size <= ReadLimit) =>
        /\ StoreExists(st.op.key)
        /\ ReadSnapshotXML(st.op.key, "ok") = SavedData

\* A Save of one byte that succeeded and reads back.
C12_Witness ==
    /\ SaveReturned /\ st.op.err = "none"
    /\ st.op.data.size = 1
    /\ ReadSnapshotXML(st.op.key, "ok") = SavedData

C14_FinalPathComplete ==
    st.pc = "store" =>
        \A k \in StoreKeys :
            /\ st.fs[FinalPath(k)].exists => Complete(st.fs[FinalPath(k)])
            /\ k \in st.rows => Complete(st.fs[FinalPath(k)])

\* The process ended during a Save whose temporary file holds a stream that
\* was not ended.
C14_Witness ==
    /\ st.pc = "store" /\ st.crashes = 1 /\ st.op.pc = "idle"
    /\ \E n \in 1..MaxSaves :
          st.fs[<<"tmp", n, 0>>].exists /\ ~st.fs[<<"tmp", n, 0>>].closed

RowsBefore(title, before) == {k \in st.rows : k[1] = title /\ k[2] < before}

\* C15: with a database that answers, PreviousDate(division, beforeDate)
\* finds a date exactly when the division has a snapshot dated before
\* beforeDate, and the date found is the latest such date of that division.
C15_PreviousDate ==
    (st.pc = "store" /\ st.q.db = "ok") =>
        /\ st.q.found = (RowsBefore(st.q.title, st.q.before) # {})
        /\ st.q.found =>
              /\ <<st.q.title, st.q.date>> \in st.rows
              /\ st.q.date < st.q.before
              /\ \A k \in RowsBefore(st.q.title, st.q.before) : k[2] <= st.q.date

\* A division with snapshots at two dates, asked for the one before a later
\* date: the later of the two is found.
C15_Witness ==
    /\ st.pc = "store" /\ st.q.db = "ok" /\ st.q.found
    /\ Cardinality(RowsBefore(st.q.title, st.q.before)) = 2
    /\ st.q.date = 2

\* ============================================================ the metrics
\* The agency under test, and its references that carry a chapter code.
TheAgency == [slug |-> "a", refs |-> mt.tree.refs]
WithChapter(refs) == SelectSeq(refs, LAMBDA r : r.chapter # "")
RowsOf(slug) == {d \in 0..MaxMetricDate : mt.rows[<<slug, d>>].has # {}}
AllFive == {MetricNames[j] : j \in 1..MetricsPerAgency}
\* The computation has run to its return, its context live throughout.
RanToEnd == mt.pc = "done" /\ mt.ctx = "none" /\ mt.err = "none"

\* C16: a reference without a chapter code contributes nothing: the text,
\* the attributed chapters and the churn of an organization are those of its
\* chapter-coded references alone, and the rows written hold those values.
C16_ChapterlessContributesNothing ==
    LET refs == TheAgency.refs
        kept == WithChapter(refs)
    IN /\ AllText(mt, refs) = AllText(mt, kept)
       /\ ChapterSet(mt, refs) = ChapterSet(mt, kept)
       /\ \A i \in 1..Len(refs) : refs[i].chapter = "" =>
             /\ Contribution(mt, refs[i]) = <<>>
             /\ \A p \in ChapterSet(mt, refs) \cup ChurnPairs(refs) : p[2] # ""
       /\ Churn(mt, refs, "none") = Churn(mt, kept, "none")
       /\ \A d \in RowsOf("a") :
             LET row == mt.rows[<<"a", d>>]
                 vals == MetricValues(mt, kept, "none")
             IN /\ "word_count" \in row.has => row.wc = vals.wc
                /\ "words_per_chapter" \in row.has => row.wpc = vals.wpc
                /\ "checksum" \in row.has => row.sum = vals.sum
                /\ "churn" \in row.has => row.churn = vals.churn

\* An organization with a chapter-coded reference that has text and a
\* chapterless reference to a title whose snapshot has text has its rows.
C16_Witness ==
    /\ RanToEnd
    /\ \E i, j \in 1..Len(TheAgency.refs) :
         /\ TheAgency.refs[i].chapter = ""
         /\ TitleChapterText(mt)[TheAgency.refs[i].title].ok
         /\ TitleChapterText(mt)[TheAgency.refs[i].title].doc["I"] # <<>>
         /\ TheAgency.refs[j].chapter # ""
         /\ TheAgency.refs[j].title # TheAgency.refs[i].title
         /\ Contribution(mt, TheAgency.refs[j]) # <<>>
    /\ \E d \in RowsOf("a") : mt.rows[<<"a", d>>].has = AllFive

\* C17: an organization whose references yield no text gets no metric rows,
\* and the computation fails only when its context has ended.
C17_NoTextNoRows ==
    /\ \A k \in 1..Len(Flatten(mt.tree)) :
          AllText(mt, Flatten(mt.tree)[k].refs) = <<>> => RowsOf(Flatten(mt.tree)[k].slug) = {}
    /\ mt.err # "none" => mt.ctx # "none"

\* The computation returned nil over an organization with a chapter-coded
\* reference to a title that has a current date, and no text.
C17_Witness ==
    /\ RanToEnd
    /\ ~mt.tree.nested
    /\ \E i \in 1..Len(TheAgency.refs) :
         /\ TheAgency.refs[i].chapter # ""
         /\ currentTitleDates(mt.titles)[TheAgency.refs[i].title] # 0
    /\ AllText(mt, TheAgency.refs) = <<>>
    /\ RowsOf("a") = {}

\* The greatest current date among the references that added text (0 when
\* there is none).
AttributedDate(refs) ==
    LET ds == {currentTitleDates(mt.titles)[refs[i].title] :
                 i \in {j \in 1..Len(refs) : Contribution(mt, refs[j]) # <<>>}} \cup {0}
    IN CHOOSE d \in ds : \A e \in ds : e <= d

\* C18: the rows of an organization are written at the greatest as-of date
\* among the references that contributed text, and at no other date.
C18_IssueDateOfAttributed ==
    \A d \in RowsOf("a") : d = AttributedDate(TheAgency.refs)

\* C19: when ComputeLatest has returned, every organization of the flattened
\* tree with non-empty text has all five metric rows at its issue date.
C19_AllFiveRows ==
    RanToEnd =>
      \A k \in 1..Len(Flatten(mt.tree)) :
        LET a == Flatten(mt.tree)[k]
        IN AllText(mt, a.refs) # <<>> =>
             mt.rows[<<a.slug, newestReferencedDateFromMap(mt, a.refs)>>].has = AllFive

\* The pairs of the organization that are comparable: the title has a
\* current date, its snapshot at that date and the latest earlier snapshot
\* both read, and both hold text for the chapter.
EarlierRows(t) ==
    {e \in MDates : e < currentTitleDates(mt.titles)[t] /\ mt.snaps[<<t, e>>].kind # "none"}
Preceding(t) == CHOOSE e \in EarlierRows(t) : \A f \in EarlierRows(t) : f <= e
ComparablePairs(refs) ==
    {p \in {<<refs[i].title, refs[i].chapter>> : i \in 1..Len(refs)} :
        /\ p[2] # ""
        /\ currentTitleDates(mt.titles)[p[1]] # 0
        /\ EarlierRows(p[1]) # {}
        /\ mt.snaps[<<p[1], currentTitleDates(mt.titles)[p[1]]>>].kind = "doc"
        /\ mt.snaps[<<p[1], currentTitleDates(mt.titles)[p[1]]>>].doc[p[2]] # <<>>
        /\ mt.snaps[<<p[1], Preceding(p[1])>>].kind = "doc"
        /\ mt.snaps[<<p[1], Preceding(p[1])>>].doc[p[2]] # <<>>}
ChangedPairs(refs) ==
    {p \in ComparablePairs(refs) :
        mt.snaps[<<p[1], currentTitleDates(mt.titles)[p[1]]>>].doc[p[2]]
          # mt.snaps[<<p[1], Preceding(p[1])>>].doc[p[2]]}

\* C20: the churn written for an organization is the number of changed pairs
\* over the number of comparable pairs, 0 when no pair is comparable, and
\* lies within [0, 1].
C20_ChurnRatio ==
    \A d \in RowsOf("a") :
      "churn" \in mt.rows[<<"a", d>>].has =>
        LET c == mt.rows[<<"a", d>>].churn
            compared == Cardinality(ComparablePairs(TheAgency.refs))
            changed == Cardinality(ChangedPairs(TheAgency.refs))
        IN /\ 0 <= c[1] /\ c[1] <= c[2] /\ c[2] >= 1
           /\ IF compared = 0 THEN c = <<0, 1>> ELSE c[1] * compared = changed * c[2]

\* Two comparable pairs, one of them changed, and the churn row written.
C20_Witness ==
    /\ RanToEnd
    /\ Cardinality(ComparablePairs(TheAgency.refs)) = 2
    /\ Cardinality(ChangedPairs(TheAgency.refs)) = 1
    /\ \E d \in RowsOf("a") : /\ "churn" \in mt.rows[<<"a", d>>].has
                              /\ mt.rows[<<"a", d>>].churn = <<1, 2>>

\* C21: when at least one pair of the organization is comparable and the
\* text of every comparable pair differs from its text in the preceding
\* snapshot, the churn computed is 1, and it is stored in one churn row.
C21_AllChangedIsOne ==
    (/\ ComparablePairs(TheAgency.refs) # {}
     /\ ChangedPairs(TheAgency.refs) = ComparablePairs(TheAgency.refs))
    => /\ Churn(mt, TheAgency.refs, "none") = <<1, 1>>
       /\ \A d \in RowsOf("a") :
            "churn" \in mt.rows[<<"a", d>>].has => mt.rows[<<"a", d>>].churn = <<1, 1>>
       /\ Cardinality({d \in RowsOf("a") : "churn" \in mt.rows[<<"a", d>>].has}) <= 1

\* Scenario A: title 1 has chapter I text at date 1 and another text at
\* date 2, its current date; the organization references (1, I) alone and
\* has the churn row with value 1 at date 2.
C21_Witness ==
    /\ RanToEnd
    /\ TheAgency.refs = <<[title |-> 1, chapter |-> "I"]>>
    /\ currentTitleDates(mt.titles)[1] = 2
    /\ mt.snaps[<<1, 1>>].kind = "doc" /\ mt.snaps[<<1, 2>>].kind = "doc"
    /\ mt.snaps[<<1, 1>>].doc["I"] # <<>> /\ mt.snaps[<<1, 2>>].doc["I"] # <<>>
    /\ mt.snaps[<<1, 1>>].doc["I"] # mt.snaps[<<1, 2>>].doc["I"]
    /\ "churn" \in mt.rows[<<"a", 2>>].has
    /\ mt.rows[<<"a", 2>>].churn = <<1, 1>>
    /\ RowsOf("a") = {2}

\* Some title referenced by the organization has a current snapshot that
\* cannot be read or parsed.
Unreadable(t) ==
    /\ currentTitleDates(mt.titles)[t] # 0
    /\ mt.snaps[<<t, currentTitleDates(mt.titles)[t]>>].kind = "bad"
\* The organization has its five rows at its issue date, with the values of
\* the text its readable titles give.
HasItsMetrics(a) ==
    LET row == mt.rows[<<a.slug, newestReferencedDateFromMap(mt, a.refs)>>]
        vals == MetricValues(mt, a.refs, "none")
    IN /\ row.has = AllFive
       /\ row.wc = vals.wc /\ row.wpc = vals.wpc /\ row.sum = vals.sum
       /\ row.fre = vals.fre /\ row.churn = vals.churn

\* C22: a title whose current snapshot cannot be read or parsed does not
\* abort the computation: ComputeLatest returns no error, and every
\* organization that has text from its other titles receives its metrics.
C22_UnreadableSkipped ==
    (mt.pc = "done" /\ mt.ctx = "none" /\ \E t \in Titled(TheAgency.refs) : Unreadable(t))
    => /\ mt.err = "none"
       /\ \A k \in 1..Len(Flatten(mt.tree)) :
             AllText(mt, Flatten(mt.tree)[k].refs) # <<>> => HasItsMetrics(Flatten(mt.tree)[k])

\* The same for organizations at the top level of the tree.
C22_UnreadableSkippedAtTopLevel ==
    (mt.pc = "done" /\ mt.ctx = "none" /\ ~mt.tree.nested
       /\ \E t \in Titled(TheAgency.refs) : Unreadable(t))
    => /\ mt.err = "none"
       /\ AllText(mt, TheAgency.refs) # <<>> => HasItsMetrics(TheAgency)

\* A top-level organization with one unreadable title and text from the
\* other has its five rows.
C22_Witness ==
    /\ RanToEnd /\ ~mt.tree.nested
    /\ \E t \in Titled(TheAgency.refs) : Unreadable(t)
    /\ AllText(mt, TheAgency.refs) # <<>>
    /\ HasItsMetrics(TheAgency)

\* An organization with text lacks one of its rows: a PutAgencyMetric of the
\* computation returned an error.
WriteFailed ==
    \E k \in 1..Len(Flatten(mt.tree)) :
       /\ k < mt.i \/ mt.pc = "done"
       /\ AllText(mt, Flatten(mt.tree)[k].refs) # <<>>
       /\ mt.rows[<<Flatten(mt.tree)[k].slug,
                    newestReferencedDateFromMap(mt, Flatten(mt.tree)[k].refs)>>].has # AllFive

\* C23: when the write of a metric row fails, ComputeLatest returns an
\* error.
C23_WriteFailureSurfaced ==
    (mt.pc = "done" /\ WriteFailed) => mt.err # "none"

C25_HistoryAccumulates ==
    [][\A k \in DOMAIN mt.rows :
          /\ mt.rows[k].has \subseteq mt'.rows[k].has
          /\ mt'.rows[k] # mt.rows[k] =>
                /\ mt.pc = "agencies" /\ mt.i <= Len(Flatten(mt.tree))
                /\ AllText(mt, Flatten(mt.tree)[mt.i].refs) # <<>>
                /\ k = <<Flatten(mt.tree)[mt.i].slug,
                         newestReferencedDateFromMap(mt, Flatten(mt.tree)[mt.i].refs)>>]_vars

\* After the second computation the organization has the rows of the first
\* at date 1 and those of the second at date 2.
C25_Witness ==
    /\ RanToEnd /\ mt.run = 2
    /\ mt.rows[<<"a", 1>>].has = AllFive
    /\ mt.rows[<<"a", 2>>].has = AllFive
    /\ mt.rows[<<"a", 1>>].sum # mt.rows[<<"a", 2>>].sum

\* C26: a cycle that fails leaves the metric rows computed before as they
\* were: a step after which the context of the computation has ended (the
\* cycle then returns the error of SetState) changes no complete row.
C26_FailedCycleKeepsRows ==
    [][mt'.ctx # "none" =>
         \A k \in DOMAIN mt.rows : mt.rows[k].has = AllFive => mt'.rows[k] = mt.rows[k]]_vars

\* ===================================================== the metric tables
\* The stored rows of one organization and metric.
StoredOf(slug, metric) == {r \in tb.rows : r.slug = slug /\ r.metric = metric}

\* Table agency_metrics has one row for a key (slug, date, metric).
TableKeysUnique ==
    \A r, x \in tb.rows : SameKey(r, x.slug, x.date, x.metric) => r = x

\* C27: the result of LatestMetric(metric) has, for each organization with a
\* row of the metric, exactly one row, which carries the value stored at the
\* organization's greatest issue date, and no row for any other organization.
C27_LatestOnePerOrganization ==
    tb.q.op = "latest" =>
      \A slug \in TSlugs :
        LET own == {i \in 1..Len(tb.out) : tb.out[i].slug = slug}
            stored == StoredOf(slug, tb.q.metric)
        IN IF stored = {} THEN own = {}
           ELSE /\ Cardinality(own) = 1
                /\ \A i \in own : \E r \in stored :
                      /\ \A x \in stored : x.date <= r.date
                      /\ tb.out[i].date = r.date
                      /\ tb.out[i].value = r.value

\* Two organizations, one of them with rows at two dates: two result rows.
C27_Witness ==
    /\ tb.q.op = "latest"
    /\ Len(tb.out) = 2
    /\ \E slug \in TSlugs : Cardinality(StoredOf(slug, tb.q.metric)) = 2

\* C28: each row of the result of LatestAgencyMetric reports the change
\* against the organization's previous issue date: delta, the newest number
\* minus the previous one, or changed, whether the newest text differs.
C28_LatestReportsChange ==
    tb.q.op = "latest" =>
      \A i \in 1..Len(tb.out) :
        LET before == {r \in StoredOf(tb.out[i].slug, tb.q.metric) : r.date < tb.out[i].date}
            prev == CHOOSE r \in before : \A x \in before : x.date <= r.date
        IN before # {} =>
             IF tb.out[i].value.kind = "num"
             THEN /\ "delta" \in DOMAIN tb.out[i]
                  /\ tb.out[i].delta = tb.out[i].value.n - prev.value.n
             ELSE /\ "changed" \in DOMAIN tb.out[i]
                  /\ tb.out[i].changed = (tb.out[i].value.t # prev.value.t)

\* C29: the result of MetricHistory(slug, metric, maxPoints) has only rows
\* of that organization and metric, in strictly descending order of date,
\* and they are the min(maxPoints, number of stored rows) newest.
C29_SeriesNewestFirst ==
    tb.q.op = "series" =>
      LET stored == StoredOf(tb.q.slug, tb.q.metric)
          n == Cardinality(stored)
      IN /\ Len(tb.out) = IF tb.q.days < n THEN tb.q.days ELSE n
         /\ \A i \in 1..Len(tb.out) :
               \E r \in stored : r.date = tb.out[i].date /\ r.value = tb.out[i].value
         /\ \A i \in 1..(Len(tb.out) - 1) : tb.out[i].date > tb.out[i + 1].date
         /\ \A r \in stored :
               (\A i \in 1..Len(tb.out) : tb.out[i].date # r.date)
                 => \A i \in 1..Len(tb.out) : r.date < tb.out[i].date

\* Three stored rows and maxPoints = 2: the two newest, newest first.
C29_Witness ==
    /\ tb.q.op = "series" /\ tb.q.days = 2
    /\ Cardinality(StoredOf(tb.q.slug, tb.q.metric)) = 3
    /\ Len(tb.out) = 2
    /\ tb.out[1].date = 3 /\ tb.out[2].date = 2

\* ============================================================== the text
\* The maximal runs of letters and digits of a text, by their first rune.
LetterOrDigit(r) == r = "a" \/ r = "1"
RunStarts(s) ==
    {i \in 1..Len(s) : LetterOrDigit(s[i]) /\ (i = 1 \/ ~LetterOrDigit(s[i - 1]))}
\* Both neighbours of the place of an edit are letters or digits: inserting
\* there splits a run, removing there joins two.
InsideRun(s, before, after) ==
    /\ before >= 1 /\ after <= Len(s)
    /\ LetterOrDigit(s[before]) /\ LetterOrDigit(s[after])

\* C30: word_count is the number of maximal runs of letters and digits, and
\* does not change when a space or punctuation mark is inserted or removed
\* at a place where it neither splits a run nor joins two.
C30_WordCountIsRuns ==
    /\ [](pf.pc = "counted" => pf.n = Cardinality(RunStarts(pf.s)))
    /\ [][(/\ pf.pc = "counted"
           /\ pf'.edit.kind = "insert" => ~InsideRun(pf.s, pf'.edit.p, pf'.edit.p + 1)
           /\ pf'.edit.kind = "remove" => ~InsideRun(pf.s, pf'.edit.p - 1, pf'.edit.p + 1))
          => pf'.n = pf.n]_vars

\* 'Hello, world 123.' in the runes of the model, counted 3, after the
\* insertion of one of its marks.
C30_Witness ==
    /\ pf.pc = "counted"
    /\ pf.s = <<"a", ".", " ", "a", " ", "1", ".">>
    /\ pf.n = 3
    /\ pf.edit.kind = "insert"

\* ======================================== the refresh cycle, continued
\* The errors of a context that is done.
ContextErrs == {"canceled", "deadline"}

\* C31: when a metadata task fails, the cycle returns the error of the task
\* that failed first: the first error in errCh is the one returned, and,
\* unless the caller's own context ended, it is never the cancellation that
\* the failure brought on the sibling task.
C31_FirstMetadataError ==
    \A r \in Req :
       cyc[r].errCh # <<>> =>
          /\ ~cyc[r].ext => cyc[r].errCh[1] \notin ContextErrs
          /\ cyc[r].pc = "ret" =>
                /\ cyc[r].result = "err"
                /\ cyc[r].err = cyc[r].errCh[1]
                /\ ~cyc[r].ext => cyc[r].err \notin ContextErrs

\* A cycle returned "status" of the task that failed first; the sibling had
\* enqueued the cancellation that followed.
C31_Witness ==
    \E r \in Req :
       /\ cyc[r].pc = "ret" /\ ~cyc[r].ext
       /\ cyc[r].errCh = <<"status", "canceled">>
       /\ cyc[r].err = "status"

\* C32: every refresh cycle terminates: a call that holds the lock returns.
\* After the cycle's context has ended no job is started by a worker and no
\* fetch delivers a file.
C32_CycleTerminates ==
    /\ \A r \in Req : (req[r] = "running") ~> (req[r] # "running")
    /\ [][\A r \in Req : CtxDone(r) =>
            \A w \in WorkerIds :
               /\ cyc[r].w[w].pc = "recv" => cyc'[r].w[w].pc # "fetch"
               /\ cyc[r].w[w].pc # "insert" => cyc'[r].w[w].pc # "insert"]_vars

\* A cycle was cancelled while its dispatcher still had a job to send and
\* its workers had exited, and it returned.
C32_Witness ==
    \E r \in Req :
       /\ cyc[r].pc = "ret" /\ cyc[r].closed
       /\ cyc[r].sendIdx <= Len(cyc[r].jobs)
       /\ \A w \in WorkerIds : cyc[r].w[w].pc = "exit"

\* The failures of a download that are transient: a network timeout, a
\* connection failure, an HTTP 429/5xx outcome.
TransientErrs == {"timeout", "refused", "unavailable"}

\* C33: a download job makes at most 3 fetch-and-save attempts; after a
\* transient failure of an attempt that is not the last the worker waits and
\* tries again, after any other failure it gives the job up.
C33_TransientRetried ==
    \A r \in Req : \A w \in WorkerIds :
       cyc[r].w[w].pc \in {"fetch", "backoff"} /\ ~CtxDone(r) =>
          LET wk == Attempting(cyc[r].w[w])
              after(e) == AfterJobErr(cyc[r], w, wk, e).w[w]
          IN /\ wk.attempt < JobAttempts
             /\ \A e \in TransientErrs :
                   wk.attempt < JobAttempts - 1 => after(e).pc = "backoff"
             /\ \A e \in {"status", "toolarge", "storage"} : after(e).pc = "recv"

\* The workers of a cycle that hold a job.
Busy(r) == {w \in WorkerIds : cyc[r].w[w].pc \in {"fetch", "backoff", "insert"}}

\* The values the concurrency setting can have.
Settings == (MinWorkers - 2)..(MaxWorkers + 2)

C35_FailedSaveLeavesNothing ==
    (/\ SaveReturned
     /\ st.crashes = 0
     /\ st.op.err # "none"
     /\ ~st.op.preRow /\ ~st.op.preFile.exists) =>
        /\ ~StoreExists(st.op.key)
        /\ ~st.fs[FinalPath(st.op.key)].exists
        /\ \A p \in StorePaths : ~st.fs[p].exists

\* ================================================ the metrics, continued
\* C36: after any sequence of computations, cancelled ones among them, every
\* (organization, issue date) has all five metric rows or none.
C36_AllOrNothing ==
    \A k \in DOMAIN mt.rows : mt.rows[k].has \in {{}, AllFive}

\* The words of the texts that the references add, one text per reference.
RECURSIVE WordsPerOccurrence(_)
WordsPerOccurrence(refs) ==
    IF refs = <<>> THEN 0
    ELSE Len(Contribution(mt, Head(refs))) + WordsPerOccurrence(Tail(refs))

\* The distinct (title, chapter) pairs among the references that add text.
AttributedPairs(refs) ==
    {<<refs[i].title, refs[i].chapter>> :
        i \in {j \in 1..Len(refs) : Contribution(mt, refs[j]) # <<>>}}

\* C39: words_per_chapter is word_count over the number of distinct
\* attributed (title, chapter) pairs: a pair that the reference list repeats
\* counts once in the divisor, and its text counts in word_count and in the
\* checksum once per occurrence.
C39_WordsPerChapter ==
    \A d \in RowsOf("a") :
      "words_per_chapter" \in mt.rows[<<"a", d>>].has =>
        LET row == mt.rows[<<"a", d>>]
            pairs == Cardinality(AttributedPairs(TheAgency.refs))
        IN /\ pairs >= 1
           /\ row.wc = WordsPerOccurrence(TheAgency.refs)
           /\ "checksum" \in row.has =>
                 Len(row.sum) = WordsPerOccurrence(TheAgency.refs)
           /\ row.wpc[2] >= 1
           /\ row.wpc[1] * pairs = row.wc * row.wpc[2]

\* The organization refers twice to the same chapter of the same title, whose
\* text has one word: word_count 2, words_per_chapter 2.
C39_Witness ==
    /\ RanToEnd
    /\ Len(TheAgency.refs) = 2
    /\ TheAgency.refs[1] = TheAgency.refs[2]
    /\ Len(Contribution(mt, TheAgency.refs[1])) = 1
    /\ \E d \in RowsOf("a") :
         /\ mt.rows[<<"a", d>>].has = AllFive
         /\ mt.rows[<<"a", d>>].wc = 2
         /\ mt.rows[<<"a", d>>].wpc = <<2, 1>>

\* =============================================== the chapter texts
\* The label of the bucket that the token at position i writes to: that of
\* the last chapter marker with a label before i, UNKNOWN without one.
Owner(doc, i) ==
    LET ms == {j \in 1..(i - 1) :
                 doc[j].kind = "start" /\ doc[j].chapter /\ doc[j].n # ""}
    IN IF ms = {} THEN "UNKNOWN"
       ELSE doc[CHOOSE j \in ms : \A k \in ms : k <= j].n

\* The fragment at position i trimmed and with its white space collapsed: it
\* begins and ends with a letter and has no two spaces in a row, no newline.
Tidy(s) ==
    /\ s # <<>> => s[1] # " " /\ s[Len(s)] # " "
    /\ \A i \in 1..Len(s) : s[i] # "\n"
    /\ \A i \in 1..(Len(s) - 1) : ~(s[i] = " " /\ s[i + 1] = " ")

\* The text of bucket b after the first n tokens: the non-blank fragments it
\* owns, in document order, each followed by a space.
RECURSIVE BucketText(_, _, _)
BucketText(doc, b, n) ==
    IF n = 0 THEN <<>>
    ELSE IF doc[n].kind = "chars" /\ TrimSpace(doc[n].s) # <<>> /\ Owner(doc, n) = b
    THEN BucketText(doc, b, n - 1) \o normalizeText(doc[n].s) \o <<" ">>
    ELSE BucketText(doc, b, n - 1)

\* C37: every non-blank fragment of character data is appended, trimmed and
\* with its white space collapsed, to the bucket of the last preceding
\* chapter marker that has a label, or to UNKNOWN; an end tag and a marker
\* without a label leave the bucket as it is, and a label that comes again
\* continues its bucket.
C37_FragmentsToBuckets ==
    /\ \A s \in Frags :
          /\ Tidy(normalizeText(s))
          /\ SelectSeq(normalizeText(s), LAMBDA c : c # " ")
                = SelectSeq(s, LAMBDA c : ~IsSpace(c))
    /\ pf.pc \in {"parsed", "attributed"} =>
          \A b \in Buckets :
             /\ pf.out[b].text = BucketText(pf.doc, b, Len(pf.doc))
             /\ pf.out[b].has <=>
                   \/ b = "UNKNOWN"
                   \/ \E j \in 1..Len(pf.doc) : pf.doc[j] = Marker(b)

\* Chapter I, an end tag and a marker without a label, then a fragment; then
\* chapter I again after chapter II, and a second fragment.
C37_Witness ==
    /\ pf.pc = "parsed"
    /\ Len(pf.doc) = 5
    /\ pf.doc[1] = Marker("I") /\ pf.doc[2] = Marker("")
    /\ pf.doc[3] = Chars(<<"\n", "b", " ", "\n", "c", " ">>)
    /\ pf.doc[4] = Marker("I") /\ pf.doc[5] = Chars(<<"a">>)
    /\ pf.out["I"].text = <<"b", " ", "c", " ", "a", " ">>
    /\ pf.out["UNKNOWN"] = [has |-> TRUE, text |-> <<>>]

\* C38: the result always has an UNKNOWN entry, and the text of the UNKNOWN
\* bucket is attributed to no organization, whatever chapter code its
\* reference carries.
C38_UnknownNeverAttributed ==
    /\ pf.pc \in {"parsed", "attributed"} => pf.out["UNKNOWN"].has
    /\ pf.pc = "attributed" /\ pf.attributed => pf.ref # "UNKNOWN"

\* ======================================= the organization tree
\* The organizations of the stored trees: the top-level ones, their
\* children and the children of these.
NodesOf(rows) ==
    LET tops == {rows[i] : i \in 1..Len(rows)}
        below(S) == UNION {{a.children[i] : i \in 1..Len(a.children)} : a \in S}
    IN tops \cup below(tops) \cup below(below(tops))

\* C40: the flattened list has every organization of every stored tree, at
\* any depth, under its slug, and every slug once; for a slug that several
\* organizations carry the record kept is that of the one the pre-order walk
\* of the trees visits last.
C40_FlattenLastWins ==
    pf.pc = "flattened" =>
       /\ {pf.out[i].slug : i \in 1..Len(pf.out)} = {a.slug : a \in NodesOf(pf.rows)}
       /\ \A i, j \in 1..Len(pf.out) : pf.out[i].slug = pf.out[j].slug => i = j
       /\ {pf.walk[i] : i \in 1..Len(pf.walk)} = NodesOf(pf.rows)
       /\ \A i \in 1..Len(pf.out) :
             LET at == {k \in 1..Len(pf.walk) : pf.walk[k].slug = pf.out[i].slug}
             IN pf.out[i] = pf.walk[CHOOSE k \in at : \A l \in at : l <= k]

\* The tree of "a" has a child "b" whose child is "a" again under another
\* name, and the row of "b" follows: the walk is a, b, a, b and the records
\* kept are the second "a" and the second "b".
C40_Witness ==
    /\ pf.pc = "flattened"
    /\ Len(pf.rows) = 2
    /\ pf.rows[1].slug = "a" /\ pf.rows[1].name = "m"
    /\ Len(pf.rows[1].children) = 1
    /\ pf.rows[1].children[1].slug = "b" /\ pf.rows[1].children[1].name = "m"
    /\ pf.rows[1].children[1].children = <<[slug |-> "a", name |-> "n", children |-> <<>>]>>
    /\ pf.rows[2] = [slug |-> "b", name |-> "n", children |-> <<>>]
    /\ Len(pf.walk) = 4
    /\ {pf.out[i] : i \in 1..Len(pf.out)} =
          {[slug |-> "a", name |-> "n", children |-> <<>>], pf.rows[2]}

====
